---- MODULE Spec2Model ----
(***************************************************************************)
(* A model of the SGo type checker and translator (tcard/sgo).            *)
(*                                                                         *)
(*   SpecLookup     field/method lookup on (optional) types               *)
(*                  (sgo/types/lookup.go)                                  *)
(*   SpecReturn     return statements written with \ (checkVars)           *)
(*   SpecTranslate  their translation (codegen.go, convertReturnStmt)      *)
(*   SpecFlow       entangled declarations and assignments in a function   *)
(*                  body, with the narrowing of optionals                  *)
(*   SpecOptionables  FindOptionables on composite types (lookup.go)      *)
(*   SpecAssert     the code emitted for a type assertion and its run      *)
(*   SpecAssertable assertableTo on the type asserted (lookup.go)          *)
(*   SpecConvert    the translation of a file, and of its translation      *)
(*   SpecUsable     declarations without a value, assignments and reads    *)
(*   SpecImport     the conversion of imported declarations                *)
(*                  (importer/convertast.go)                               *)
(*   SpecParse      the parser of annotation files (annotations/parse.go)  *)
(*   SpecTokenizer  its tokenizer: Peek and Next (annotations/parse.go)    *)
(*   SpecTarget     entangled assignments to selectors and index expressions*)
(*   SpecSwitch     the statement emitted for a type switch and its run    *)
(*   SpecBinding    the statements that bind the results of an assertion   *)
(*   SpecSearch     findOptionables2 call by call, on recursive named types*)
(*   SpecAnnotation NewAnnotation, Lookup and Type (annotations.go)        *)
(***************************************************************************)
EXTENDS Integers, Sequences, FiniteSets, TLC

VARIABLES
    lkIn,       \* the arguments of the last LookupFieldOrMethod call, or NoCall
    lkOut,      \* its result [obj, index, indirect]
    retSig,     \* the enclosing function's results: [fields, tail]
    retStmt,    \* the return statement being processed: [List, EntangledPos], or NoCall
    retErrs,    \* the diagnostics the checker reported for retStmt
    retOut,     \* the translator's output for retStmt, or NoCall
    objs,       \* the variables of the function body checked: typ, usable, collapses
    scopes,     \* the stack of open scopes, the function's first
    boundBy,    \* for each variable, the tail of the last entangled statement that set it
    last,       \* the last statement checked
    probe,      \* the use of a variable checked after it, or NoProbe
    fnIn,       \* the arguments of the last call of a function without state, or NoCall
    fnOut       \* what that call returned

lookupVars == <<lkIn, lkOut>>
retVars == <<retSig, retStmt, retErrs, retOut>>
flowVars == <<objs, scopes, boundBy, last, probe>>
fnVars == <<fnIn, fnOut>>
vars ==
    <<lkIn, lkOut, retSig, retStmt, retErrs, retOut, objs, scopes, boundBy, last, probe,
      fnIn, fnOut>>

(***************************************************************************)
(* The type universe.  A type is a record tagged by k; a named type refers *)
(* to its declaration by name (the arena of declared types below).         *)
(***************************************************************************)
Basic(n)     == [k |-> "Basic", name |-> n]
Pointer(e)   == [k |-> "Pointer", elem |-> e]
Optional(e)  == [k |-> "Optional", elem |-> e]
Named(n)     == [k |-> "Named", name |-> n]
Struct(fs)   == [k |-> "Struct", fields |-> fs]
Interface(m) == [k |-> "Interface", allMethods |-> m]

Field(n, t, anon) == [name |-> n, typ |-> t, anonymous |-> anon]
Func(n, recv)     == [kind |-> "Func", name |-> n, recv |-> recv]
FieldVar(f)       == [kind |-> "Var", name |-> f.name, typ |-> f.typ]
NoObj             == [kind |-> "none"]
NoCall            == [kind |-> "none"]
NoVar             == [kind |-> "none"]
NoType            == [k |-> "none"]
InvalidType       == [k |-> "Invalid"]
NilIndex          == <<>>

Map(key, e)      == [k |-> "Map", key |-> key, elem |-> e]
Slice(e)         == [k |-> "Slice", elem |-> e]
Array(e)         == [k |-> "Array", elem |-> e]
Chan(e)          == [k |-> "Chan", elem |-> e]
Signature(ps, rs) == [k |-> "Signature", params |-> ps, results |-> rs]
\* The type of a call: the result variables' types and the entangled one.
Tuple(vs, ent)   == [k |-> "Tuple", vars |-> vs, entangled |-> ent]

TInt        == Basic("int")
TBool       == Basic("bool")
TString     == Basic("string")
TFloat      == Basic("float64")
UntypedBool == Basic("untyped bool")
UntypedInt  == Basic("untyped int")
UntypedNil  == Basic("untyped nil")
TError      == Named("error")

\* The declarations the lookups run against (methods listed by receiver):
\*   type E struct{ g int }     methods Mv on E, Mp on pointer-to-E,
\*                              Mo on optional pointer-to-E
\*   type F struct{ g int }
\*   type S struct{ f int; E }  methods Sp on pointer-to-S,
\*                              So on optional pointer-to-S
\*   type P struct{ h int; E embedded by pointer }
\*   type Q struct{ E embedded by optional pointer }
\*   type D struct{ E; F }
\*   type I interface{ Im() }
\*   type NP pointer-to-E
\*   type NO optional pointer-to-E
\*   type error interface{ Error() string }
\*   type B bool
NamedTypes ==
    [n \in {"E", "F", "S", "P", "Q", "D", "I", "NP", "NO", "error", "B", "L", "A", "M", "R"} |->
        CASE n = "E" -> [methods |-> << Func("Mv", Named("E")),
                                        Func("Mp", Pointer(Named("E"))),
                                        Func("Mo", Optional(Pointer(Named("E")))) >>,
                         underlying |-> Struct(<< Field("g", TInt, FALSE) >>)]
          [] n = "F" -> [methods |-> << >>,
                         underlying |-> Struct(<< Field("g", TInt, FALSE) >>)]
          [] n = "S" -> [methods |-> << Func("Sp", Pointer(Named("S"))),
                                        Func("So", Optional(Pointer(Named("S")))) >>,
                         underlying |-> Struct(<< Field("f", TInt, FALSE),
                                                  Field("E", Named("E"), TRUE) >>)]
          [] n = "P" -> [methods |-> << >>,
                         underlying |-> Struct(<< Field("h", TInt, FALSE),
                                                  Field("E", Pointer(Named("E")), TRUE) >>)]
          [] n = "Q" -> [methods |-> << >>,
                         underlying |-> Struct(<< Field("E", Optional(Pointer(Named("E"))), TRUE) >>)]
          [] n = "D" -> [methods |-> << >>,
                         underlying |-> Struct(<< Field("E", Named("E"), TRUE),
                                                  Field("F", Named("F"), TRUE) >>)]
          [] n = "I" -> [methods |-> << >>,
                         underlying |-> Interface(<< Func("Im", Named("I")) >>)]
          [] n = "NP" -> [methods |-> << >>, underlying |-> Pointer(Named("E"))]
          [] n = "NO" -> [methods |-> << >>, underlying |-> Optional(Pointer(Named("E")))]
          [] n = "error" -> [methods |-> << >>,
                             underlying |-> Interface(<< Func("Error", Named("error")) >>)]
          [] n = "B" -> [methods |-> << >>, underlying |-> TBool]
          \* type L struct { next *L; v *int }
          [] n = "L" -> [methods |-> << >>,
                         underlying |-> Struct(<< Field("next", Pointer(Named("L")), FALSE),
                                                  Field("v", Pointer(TInt), FALSE) >>)]
          \* type A struct { m M };  type M map[string]*A
          [] n = "A" -> [methods |-> << >>,
                         underlying |-> Struct(<< Field("m", Named("M"), FALSE) >>)]
          [] n = "M" -> [methods |-> << >>,
                         underlying |-> Map(TString, Pointer(Named("A")))]
          \* type R *R
          [] n = "R" -> [methods |-> << >>, underlying |-> Pointer(Named("R"))]]

Underlying(typ) == IF typ.k = "Named" THEN NamedTypes[typ.name].underlying ELSE typ

IsInterface(typ) == Underlying(typ).k = "Interface"

\* deref dereferences typ if it is a Pointer and returns its base and TRUE.
deref(typ) == IF typ.k = "Pointer" THEN <<typ.elem, TRUE>> ELSE <<typ, FALSE>>

\* deopt unwraps typ if it is an Optional and returns its elem and TRUE.
deopt(typ) == IF typ.k = "Optional" THEN <<typ.elem, TRUE>> ELSE <<typ, FALSE>>

isOptional(typ) == typ.k = "Optional"
optRecv(f) == deopt(f.recv)[2]
ptrRecv(f) == deref(f.recv)[2]

concat(list, i) == Append(list, i)

\* lookupMethod: the (0-based) index of the method called name, or -1.
lookupMethod(methods, name) ==
    IF name # "_" /\ \E i \in 1..Len(methods) : methods[i].name = name
    THEN (CHOOSE i \in 1..Len(methods) :
            /\ methods[i].name = name
            /\ \A j \in 1..(i-1) : methods[j].name # name) - 1
    ELSE -1

embeddedType(typ, index, indirect, opt, multiples) ==
    [typ |-> typ, index |-> index, indirect |-> indirect, opt |-> opt,
     multiples |-> multiples]

RECURSIVE consolidate(_, _, _)
consolidate(list, i, acc) ==
    IF i > Len(list) THEN acc
    ELSE IF \E j \in 1..Len(acc) : acc[j].typ = list[i].typ
         THEN LET j == CHOOSE j \in 1..Len(acc) : acc[j].typ = list[i].typ
              IN consolidate(list, i + 1, [acc EXCEPT ![j].multiples = TRUE])
         ELSE consolidate(list, i + 1, Append(acc, list[i]))

consolidateMultiples(list) ==
    IF Len(list) <= 1 THEN list ELSE consolidate(list, 1, << >>)

\* The search state of lookupFieldOrMethod: the named results obj, index and
\* indirect, the seen set, the embedded types collected for the next depth,
\* and whether a return statement inside the loops has been executed.
Returned(st, obj, index, indirect) ==
    [st EXCEPT !.returned = TRUE, !.obj = obj, !.index = index, !.indirect = indirect]

\* Variant of FieldMatches without the isOpt guard.
FieldMatchesIgnoringOpt(isOpt, f, name) == f.name = name

\* lookup.go:148: a field matches only when the looked-up type is not optional.
FieldMatches(isOpt, f, name) == ~isOpt /\ f.name = name

RECURSIVE fieldsLoop(_, _, _, _, _, _)
fieldsLoop(e, fields, i, isOpt, name, st) ==
    IF st.returned \/ i > Len(fields) THEN st
    ELSE LET f == fields[i] IN
         IF FieldMatches(isOpt, f, name)
         THEN IF st.obj # NoObj \/ e.multiples
              THEN Returned(st, NoObj, concat(e.index, i - 1), FALSE)
              ELSE fieldsLoop(e, fields, i + 1, isOpt, name,
                       [st EXCEPT !.obj = FieldVar(f),
                                  !.index = concat(e.index, i - 1),
                                  !.indirect = e.indirect])
         ELSE IF st.obj = NoObj /\ f.anonymous
              THEN LET fOpt == deopt(f.typ)[2]
                       d    == deref(f.typ)      \* deref of f.typ, not of the unwrapped type
                   IN fieldsLoop(e, fields, i + 1, isOpt, name,
                          [st EXCEPT !.next = Append(@,
                              embeddedType(d[1], concat(e.index, i - 1),
                                           e.indirect \/ d[2], fOpt, e.multiples))])
              ELSE fieldsLoop(e, fields, i + 1, isOpt, name, st)

\* The body of the switch on the (underlying) type of one entry.
typeSwitch(e, typ, isOpt, name, st) ==
    CASE typ.k = "Struct" -> fieldsLoop(e, typ.fields, 1, isOpt, name, st)
      [] typ.k = "Interface" ->
            LET i == lookupMethod(typ.allMethods, name) IN
            IF i = -1 THEN st
            ELSE IF st.obj # NoObj \/ e.multiples
                 THEN Returned(st, NoObj, concat(e.index, i), FALSE)
                 ELSE [st EXCEPT !.obj = typ.allMethods[i + 1],
                                 !.index = concat(e.index, i),
                                 !.indirect = e.indirect]
      [] OTHER -> st

\* lookup.go:132: a method found on an optional is skipped unless its
\* receiver is declared optional.
SkipMethod(e, m) == e.opt /\ ~isOptional(m.recv)

RECURSIVE entriesLoop(_, _, _, _, _)
entriesLoop(current, k, isOpt, name, st) ==
    IF st.returned \/ k > Len(current) THEN st
    ELSE LET e == current[k] IN
         IF e.typ.k = "Named"
         THEN IF e.typ.name \in st.seen
              THEN entriesLoop(current, k + 1, isOpt, name, st)
              ELSE LET named == NamedTypes[e.typ.name]
                       st1   == [st EXCEPT !.seen = @ \cup {e.typ.name}]
                       i     == lookupMethod(named.methods, name)
                   IN IF i # -1
                      THEN IF st1.obj # NoObj \/ e.multiples
                           THEN Returned(st1, NoObj, concat(e.index, i), FALSE)
                           ELSE IF SkipMethod(e, named.methods[i + 1])
                                THEN entriesLoop(current, k + 1, isOpt, name,
                                         [st1 EXCEPT !.index = concat(e.index, i)])
                                ELSE entriesLoop(current, k + 1, isOpt, name,
                                         [st1 EXCEPT !.obj = named.methods[i + 1],
                                                     !.index = concat(e.index, i),
                                                     !.indirect = e.indirect])
                      ELSE entriesLoop(current, k + 1, isOpt, name,
                               typeSwitch(e, named.underlying, isOpt, name, st1))
         ELSE entriesLoop(current, k + 1, isOpt, name,
                  typeSwitch(e, e.typ, isOpt, name, st))

Result(obj, index, indirect) == [obj |-> obj, index |-> index, indirect |-> indirect]

\* lookup.go:192-213: the checks on a potential match.
foundMatch(st, isOpt, addressable) ==
    IF st.obj.kind = "Func"
    THEN IF optRecv(st.obj)
         THEN IF deopt(st.obj.recv)[1].k = "Pointer" /\ ~st.indirect /\ ~addressable
              THEN Result(NoObj, NilIndex, TRUE)
              ELSE Result(st.obj, st.index, st.indirect)
         ELSE IF isOpt
              THEN Result(NoObj, NilIndex, TRUE)      \* optional receiver required
              ELSE IF ptrRecv(st.obj) /\ ~st.indirect /\ ~addressable
                   THEN Result(NoObj, NilIndex, TRUE) \* pointer/addressable receiver required
                   ELSE Result(st.obj, st.index, st.indirect)
    ELSE Result(st.obj, st.index, st.indirect)

RECURSIVE searchDepth(_, _, _, _, _)
searchDepth(current, isOpt, addressable, name, st) ==
    IF Len(current) = 0 THEN Result(NoObj, NilIndex, FALSE)
    ELSE LET st1 == entriesLoop(current, 1, isOpt, name, [st EXCEPT !.next = << >>]) IN
         IF st1.returned THEN Result(st1.obj, st1.index, st1.indirect)
         ELSE IF st1.obj # NoObj THEN foundMatch(st1, isOpt, addressable)
         ELSE searchDepth(consolidateMultiples(st1.next), isOpt, addressable, name, st1)

lookupFieldOrMethod(T, addressable, name) ==
    IF name = "_" THEN Result(NoObj, NilIndex, FALSE)
    ELSE LET o     == deopt(T)
             isOpt == o[2]
             d     == deref(o[1])
             typ   == d[1]
             isPtr == d[2]
         IN IF isPtr /\ IsInterface(typ) THEN Result(NoObj, NilIndex, FALSE)
            ELSE searchDepth(<< embeddedType(typ, << >>, isPtr, isOpt, FALSE) >>,
                             isOpt, addressable, name,
                             [obj |-> NoObj, index |-> NilIndex, indirect |-> FALSE,
                              seen |-> {}, next |-> << >>, returned |-> FALSE])

LookupFieldOrMethod(T, addressable, name) ==
    LET t == IF T.k = "Named" /\ Underlying(T).k = "Optional" THEN Underlying(T).elem ELSE T
    IN IF T.k = "Named" /\ Underlying(t).k = "Pointer"
       THEN LET r == lookupFieldOrMethod(Underlying(t), FALSE, name)
            IN IF r.obj.kind = "Func" THEN Result(NoObj, NilIndex, FALSE) ELSE r
       ELSE lookupFieldOrMethod(T, addressable, name)

(***************************************************************************)
(* SpecLookup: lookups of every name on every type of the universe.        *)
(***************************************************************************)
(***************************************************************************)
(* Assignment checks (sgo/types/assignments.go, the version with           *)
(* checkVars).  An expression of the model is the operand its evaluation   *)
(* yields: [mode, typ, val].                                               *)
(***************************************************************************)
NoVal == "none"
Operand(mode, typ, val) == [mode |-> mode, typ |-> typ, val |-> val]
Invalid == Operand("invalid", NoType, NoVal)
Var(name, typ) == [name |-> name, typ |-> typ]
ExprList(list, pos) == [List |-> list, EntangledPos |-> pos]

ErrNotBoth         == "must have values at either side of \\, not both"
ErrRhsEntangled    == "right-hand side cannot be entangled in assignment"
ErrLhsNotEntangled == "expected entangled assignment, but left-hand side is not entangled"
ErrRhsNotEntangled == "expected entangled assignment, but right-hand side is not entangled"
ErrEntangledBool   == "entangled bool must be the false constant"
ErrReturnCount     == "wrong number of return values"
ErrAssignCount     == "assignment count mismatch"
ErrCannotUse       == "cannot use value as the variable's type"
ErrUntypedNil      == "use of untyped nil"
PanicIndex         == "panic: index out of range"

isUntyped(typ) ==
    typ.k = "Basic" /\ typ.name \in {"untyped bool", "untyped int", "untyped nil"}
isBoolean(typ) ==
    Underlying(typ).k = "Basic" /\ Underlying(typ).name \in {"bool", "untyped bool"}
isNumeric(typ) ==
    Underlying(typ).k = "Basic" /\ Underlying(typ).name \in {"int", "float64", "untyped int"}
hasNil(typ) ==
    Underlying(typ).k \in {"Pointer", "Map", "Slice", "Chan", "Signature", "Interface", "Optional"}
isBooleanConst(x) == x.mode = "constant" /\ isBoolean(x.typ)
Default(typ) ==
    CASE typ = UntypedBool -> TBool
      [] typ = UntypedInt  -> TInt
      [] OTHER             -> typ

\* Whether the untyped operand x converts to the target type.
convertUntyped(x, target) ==
    CASE x.typ = UntypedBool -> isBoolean(target)
      [] x.typ = UntypedInt  -> isNumeric(target)
      [] x.typ = UntypedNil  -> hasNil(target)
      [] OTHER               -> TRUE

\* Whether a value of type V is assignable to a variable of type T.
assignableTo(V, T) ==
    \/ V = T
    \/ T.k = "Optional" /\ T.elem = V
    \/ Underlying(V) = Underlying(T) /\ (V.k # "Named" \/ T.k # "Named")

\* assignment: the diagnostics of assigning x to a variable of type T
\* (T = NoType stands for the untyped blank identifier).
assignment(x, T) ==
    IF x.mode = "invalid" THEN {}
    ELSE IF isUntyped(x.typ)
    THEN IF T = NoType /\ x.typ = UntypedNil THEN {ErrUntypedNil}
         ELSE LET target == IF T = NoType \/ IsInterface(T) THEN Default(x.typ) ELSE T
              IN  IF ~convertUntyped(x, target) THEN {ErrCannotUse}
                  ELSE IF T = NoType \/ assignableTo(target, T) THEN {}
                  ELSE {ErrCannotUse}
    ELSE IF T = NoType \/ assignableTo(x.typ, T) THEN {}
    ELSE {ErrCannotUse}

\* initVar: the diagnostics of initialising lhs with x; a variable without
\* a type takes the (default) type of x.
initVar(lhs, x) ==
    IF x.mode = "invalid" \/ lhs.typ = InvalidType THEN {}
    ELSE IF lhs.typ = NoType
    THEN IF x.typ = UntypedNil THEN {ErrUntypedNil}
         ELSE assignment(x, Default(x.typ))
    ELSE assignment(x, lhs.typ)

\* The type initVar leaves in lhs.
initVarType(lhs, x) ==
    IF lhs.typ # NoType THEN lhs.typ
    ELSE IF x.mode = "invalid" \/ x.typ = UntypedNil THEN NoType
    ELSE Default(x.typ)

\* The number of values a call's tuple carries, the entangled one included,
\* and the type of its i-th value (counted from 0).
TupleLen(t) == Len(t.vars) + (IF t.entangled = NoVar THEN 0 ELSE 1)
TupleAt(t, i) == IF i < Len(t.vars) THEN t.vars[i + 1].typ ELSE t.entangled.typ

\* Variant of rhsForm that takes values on both sides for the success shape.
rhsFormMixedAllowed(rhs) ==
    IF rhs.EntangledPos = 0 /\ Len(rhs.List) > 0 THEN "plain"
    ELSE IF rhs.EntangledPos = 1 THEN "failure"
    ELSE IF Len(rhs.List) > 0 THEN "success"
    ELSE "empty"

\* checkVars, the if/else-if chain on rhs.EntangledPos:
\*   plain     x, y, z         failure   \ z
\*   success   x, y \          mixed     x \ z
rhsForm(rhs) ==
    IF rhs.EntangledPos = 0 /\ Len(rhs.List) > 0 THEN "plain"
    ELSE IF rhs.EntangledPos = 1 THEN "failure"
    ELSE IF rhs.EntangledPos = Len(rhs.List) + 1 THEN "success"
    ELSE IF Len(rhs.List) > 0 THEN "mixed"
    ELSE "empty"

\* checkVars: l, the number of values the left-hand side wants.
wantCount(lhs, rhs, entangledLhs) ==
    LET form == rhsForm(rhs)
    IN  IF form = "plain"
        THEN IF rhs.List[1].typ.k = "Tuple"
             THEN IF rhs.List[1].typ.entangled # NoVar THEN Len(lhs) + 1 ELSE Len(lhs)
             ELSE IF entangledLhs # NoVar THEN Len(lhs) + 1 ELSE Len(lhs)
        ELSE IF form = "failure" THEN 1
        ELSE Len(lhs)

\* checkVars: rhsIsEntangled.
rhsIsEntangled(rhs) ==
    LET form == rhsForm(rhs)
    IN  IF form = "plain"
        THEN rhs.List[1].typ.k = "Tuple" /\ rhs.List[1].typ.entangled # NoVar
        ELSE form \in {"failure", "success", "mixed"}

\* Variant of EntangledBoolRejected that rejects non-constant booleans only.
EntangledBoolAnyConstant(rhsEnt, x) ==
    rhsEnt /\ isBoolean(x.typ) /\ ~isBooleanConst(x)

\* checkVars, in the callback given to unpack: a boolean operand of an
\* entangled right-hand side must be the constant false.
EntangledBoolRejected(rhsEnt, x) ==
    rhsEnt /\ isBoolean(x.typ) /\ (~isBooleanConst(x) \/ x.val # "false")

\* unpack: how the right-hand side delivers its values: the expressions of
\* the list, the values of one call's tuple, a comma-ok pair, or one value.
unpack(rhs, allowCommaOk) ==
    LET n == Len(rhs.List)
        U(kind, r) == [kind |-> kind, r |-> r, commaOk |-> kind = "commaok"]
    IN  IF n # 1 THEN U("list", n)
        ELSE LET x0 == rhs.List[1]
             IN  IF x0.mode = "invalid" THEN U("nil", 0)
                 ELSE IF x0.typ.k = "Tuple" THEN U("tuple", TupleLen(x0.typ))
                 ELSE IF x0.mode \in {"mapindex", "commaok"} /\ allowCommaOk
                 THEN U("commaok", 2)
                 ELSE U("single", 1)

\* The getter unpack returns, applied to position i (counted from 0).  For
\* a list it is checkVars' own callback, which indexes rhs.List.
get(rhs, u, i) ==
    LET x0 == rhs.List[1]
    IN  CASE u.kind = "list" ->
                IF i < Len(rhs.List) THEN rhs.List[i + 1]
                ELSE Operand("panic", NoType, NoVal)
          [] u.kind = "tuple" -> Operand("value", TupleAt(x0.typ, i), NoVal)
          [] u.kind = "commaok" ->
                Operand("value", IF i = 0 THEN x0.typ ELSE UntypedBool, NoVal)
          [] OTHER ->
                IF x0.mode \in {"mapindex", "commaok"}
                THEN Operand("value", x0.typ, NoVal) ELSE x0

\* The names of the function body checked, and the scopes' lookups.  A
\* variable is identified by its position in objs; NoId is no variable.
Names == {"x", "v", "w", "t"}
NoId  == 0
Range(seq) == {seq[i] : i \in 1 .. Len(seq)}
Top == scopes[Len(scopes)]

\* Scope.Lookup: the object of that name declared in the current scope.
ScopeLookup(name) == Top.names[name]

\* Scope.LookupParent: the object of that name in the innermost scope that
\* declares it.
LookupParent(name) ==
    LET holders == {i \in 1 .. Len(scopes) : scopes[i].names[name] # NoId}
    IN  IF holders = {} THEN NoId
        ELSE scopes[CHOOSE i \in holders : \A j \in holders : j <= i].names[name]

ErrUndeclared == "undeclared name"

\* assignVar: the diagnostics of assigning x to the identifier lhs, which
\* is looked up through the enclosing scopes.
assignVar(lhs, x) ==
    IF x.mode = "invalid" THEN {}
    ELSE IF LookupParent(lhs) = NoId THEN {ErrUndeclared}
    ELSE assignment(x, objs[LookupParent(lhs)].typ)

\* The setVar callbacks checkVars is given, by name: the diagnostics of
\* setting the variable v from the operand x.
setVarCall(setVar, v, x) ==
    IF setVar = "initVar" THEN initVar(v, x)
    ELSE assignVar(v.expr, x)

\* checkVars.  lhs is the sequence of variables, entangledLhs the variable
\* after \ (or NoVar), setVar names the callback that sets a variable.
\* The result holds the diagnostics, whether the checker panicked, and the
\* pairs (position, operand) handed to setVar.
checkVars(lhs, rhs, isReturn, entangledLhs, setVar) ==
    LET form   == rhsForm(rhs)
        n      == Len(rhs.List)
        l      == wantCount(lhs, rhs, entangledLhs)
        rhsEnt == rhsIsEntangled(rhs)
        allowCommaOk == l = 2 /\ entangledLhs # NoVar /\ ~isReturn
        u      == unpack(rhs, allowCommaOk)
        varAt(i) == IF i < Len(lhs) THEN lhs[i + 1] ELSE entangledLhs
        mismatch == u.kind = "nil" \/ l # u.r
        \* the positions the getter is applied to
        visited ==
            IF mismatch
            THEN IF u.kind = "nil" THEN {} ELSE 0 .. (u.r - 1)
            ELSE IF u.commaOk THEN {0, 1}
            ELSE {i \in 0 .. Len(lhs) :
                    /\ varAt(i) # NoVar
                    /\ ~(rhs.EntangledPos = 1 /\ i # Len(lhs))
                    /\ ~(rhs.EntangledPos = Len(lhs) + 1 /\ i = Len(lhs))}
        \* the expressions of rhs.List the callback evaluated
        evaluated ==
            IF n = 1 THEN {0}
            ELSE {i \in visited : i < n}
        panics == u.kind = "list" /\ \E i \in visited : i >= n
        set    == IF mismatch THEN {} ELSE {i \in visited : u.kind # "list" \/ i < n}
        errsForm ==
            IF form \in {"failure", "success"} /\ ~isReturn THEN {ErrRhsEntangled}
            ELSE IF form = "mixed" THEN {ErrNotBoth}
            ELSE {}
        errsLhs ==
            IF rhsEnt /\ entangledLhs = NoVar THEN {ErrLhsNotEntangled} ELSE {}
        errsBool ==
            IF \E i \in evaluated : EntangledBoolRejected(rhsEnt, rhs.List[i + 1])
            THEN {ErrEntangledBool} ELSE {}
        errsRhs ==
            IF ~u.commaOk /\ ~rhsEnt /\ entangledLhs # NoVar
            THEN {ErrRhsNotEntangled} ELSE {}
        errsCount ==
            IF u.kind # "nil" /\ l # u.r
            THEN {IF isReturn THEN ErrReturnCount ELSE ErrAssignCount}
            ELSE {}
        errsSet == UNION {setVarCall(setVar, varAt(i), get(rhs, u, i)) : i \in set}
    IN  [errs    |-> errsForm \cup errsLhs \cup errsBool \cup errsRhs
                        \cup errsCount \cup errsSet,
         panics  |-> panics,
         commaOk |-> u.commaOk /\ ~mismatch,
         sets    |-> {[i |-> i, x |-> get(rhs, u, i)] : i \in set}]

\* initVars: checkVars with initVar as setVar.
initVars(lhs, rhs, isReturn, entangledLhs) ==
    checkVars(lhs, rhs, isReturn, entangledLhs, "initVar")

\* A return statement with results initialises the result variables of the
\* enclosing signature with them.
returnStmt(sig, results) ==
    initVars(sig.results.vars, results, TRUE, sig.results.entangled)

accepted(out) == out.errs = {} /\ ~out.panics

LookupTypes ==
    LET base == {Named(n) : n \in {"E", "F", "S", "P", "Q", "D", "I", "NP", "NO"}}
        ptrs == {Pointer(t) : t \in base}
    IN base \cup ptrs \cup {Optional(t) : t \in ptrs}
            \cup {Optional(Named("I")), Optional(Interface(<< Func("Im", Interface(<< >>)) >>))}

LookupNames == {"f", "g", "h", "E", "Mv", "Mp", "Mo", "Sp", "So", "Im", "_", "zz"}

RetIdle == retSig = NoCall /\ retStmt = NoCall /\ retErrs = {} /\ retOut = NoCall
FlowIdle ==
    objs = <<>> /\ scopes = <<>> /\ boundBy = <<>> /\ last = NoCall /\ probe = NoCall

FnIdle == fnIn = NoCall /\ fnOut = NoCall
LookupInit == lkIn = NoCall /\ lkOut = NoCall /\ RetIdle /\ FlowIdle /\ FnIdle

Lookup ==
    \E T \in LookupTypes, addressable \in BOOLEAN, name \in LookupNames :
        /\ lkIn = NoCall
        /\ UNCHANGED <<retVars, flowVars, fnVars>>
        /\ lkIn' = [kind |-> "call", T |-> T, addressable |-> addressable, name |-> name]
        /\ lkOut' = LookupFieldOrMethod(T, addressable, name)

LookupNext == Lookup

SpecLookup == LookupInit /\ [][LookupNext]_vars

(***************************************************************************)
(* SpecReturn: return statements written with \ in functions with          *)
(* MaxResults results at most, checked by checkVars.                       *)
(***************************************************************************)
MaxResults == 2

TrueConst  == Operand("constant", UntypedBool, "true")
FalseConst == Operand("constant", UntypedBool, "false")
IntVar     == Operand("variable", TInt, NoVal)
BoolVar    == Operand("variable", TBool, NoVal)
ErrVar     == Operand("variable", TError, NoVal)

ReturnResultTypes == {TInt, TBool}
ReturnTails == {NoVar, Var("err", TError), Var("ok", TBool), Var("ok", Named("B"))}
ReturnExprs == {TrueConst, FalseConst, IntVar, BoolVar, ErrVar}

SeqsOfLen(S, k) == [1 .. k -> S]
ResultVars(ts) == [i \in 1 .. Len(ts) |-> Var("", ts[i])]
\* The declaration's result list with one field per result.
FieldPerResult(ts) == [i \in 1 .. Len(ts) |-> [n |-> 1, typ |-> ts[i]]]
Sig(ts, tail, fields) == [results |-> Tuple(ResultVars(ts), tail), ast |-> fields]

LookupIdle == lkIn = NoCall /\ lkOut = NoCall

ReturnInit ==
    /\ LookupIdle
    /\ FlowIdle
    /\ FnIdle
    /\ \E k \in 1 .. MaxResults : \E ts \in SeqsOfLen(ReturnResultTypes, k) :
         \E tail \in ReturnTails : retSig = Sig(ts, tail, FieldPerResult(ts))
    /\ retStmt = NoCall
    /\ retErrs = {}
    /\ retOut = NoCall

Diagnostics(out) == out.errs \cup (IF out.panics THEN {PanicIndex} ELSE {})

\* The checker processes one return statement written with \.
CheckReturn ==
    /\ retStmt = NoCall
    /\ \E k \in 1 .. (Len(retSig.results.vars) + 1) :
         \E list \in SeqsOfLen(ReturnExprs, k) : \E pos \in 1 .. (k + 1) :
            /\ retStmt' = ExprList(list, pos)
            /\ retErrs' = Diagnostics(returnStmt(retSig, ExprList(list, pos)))
    /\ UNCHANGED <<retSig, retOut, lookupVars, flowVars, fnVars>>

ReturnNext == CheckReturn

SpecReturn == ReturnInit /\ [][ReturnNext]_vars

(***************************************************************************)
(* The translator's rewriting of return statements                          *)
(* (sgo/codegen.go, convertReturnStmt).                                     *)
(***************************************************************************)
PanicUnhandled == "panic: unhandled Type"
NoPanic        == ""

\* The source text of a type expression and of the j-th expression of the
\* return statement, which the translator copies.
TypeText(typ) == IF typ.k = "Named" THEN typ.name ELSE "struct{}"
ExprText == <<"e1", "e2", "e3", "e4", "e5", "e6">>

\* convertReturnStmt, the body of the loop over the results: the text
\* injected for result i (counted from 0), or the panic raised.
zeroValue(sig, i) ==
    LET typ == sig.results.vars[i + 1].typ
        underlying == Underlying(typ)
        Text(t) == [panic |-> NoPanic, text |-> t]
    IN  IF underlying.k \in {"Pointer", "Map", "Slice", "Signature", "Interface", "Optional"}
        THEN Text("nil")
        ELSE IF underlying.k = "Struct"
        THEN IF i < Len(sig.ast)
             THEN Text(TypeText(sig.ast[i + 1].typ) \o "{}")
             ELSE [panic |-> PanicIndex, text |-> ""]
        ELSE IF underlying.k = "Basic"
        THEN CASE underlying.name = "bool"    -> Text("false")
               [] underlying.name = "int"     -> Text("0")
               [] underlying.name = "float64" -> Text("0.0")
               [] underlying.name = "string"  -> Text("\"\"")
               [] OTHER                       -> Text("nil")
        ELSE [panic |-> PanicUnhandled, text |-> ""]

\* convertReturnStmt: the values of the emitted return statement, or the
\* panic raised while emitting it.
convertReturnStmt(sig, v) ==
    LET resultsLen == Len(sig.results.vars)
        results == IF v.EntangledPos = 1
                   THEN [i \in 1 .. resultsLen |-> zeroValue(sig, i - 1)]
                   ELSE <<>>
        panicked == {i \in 1 .. Len(results) : results[i].panic # NoPanic}
        first == CHOOSE i \in panicked : \A j \in panicked : i <= j
        exprs == [j \in 1 .. Len(v.List) |-> ExprText[j]]
        chunk == IF v.EntangledPos > 1
                 THEN IF sig.results.entangled.typ = TBool THEN <<"true">> ELSE <<"nil">>
                 ELSE <<>>
    IN  IF panicked # {}
        THEN [panic |-> results[first].panic, out |-> <<>>]
        ELSE [panic |-> NoPanic,
              out |-> [i \in 1 .. Len(results) |-> results[i].text] \o exprs \o chunk]

(***************************************************************************)
(* SpecTranslate: a return statement written with \ is checked and, when   *)
(* the checker accepts it, translated.                                     *)
(***************************************************************************)
TranslateResultTypes ==
    {TInt, TString, TFloat, TBool, TError, Named("S"), Pointer(Named("E")),
     Map(TInt, TInt), Slice(TInt), Chan(TInt), Signature(<<>>, <<>>)}
TranslateTails == {Var("err", TError), Var("ok", TBool), Var("ok", Named("B"))}

\* The ways to declare results of types ts: the set of positions after
\* which a new field starts; results declared in one field share its type.
Groupings(ts) ==
    {b \in SUBSET (1 .. (Len(ts) - 1)) :
        \A i \in (1 .. (Len(ts) - 1)) \ b : ts[i] = ts[i + 1]}

\* The fields of the declaration that groups ts by b.
FieldsOf(ts, b) ==
    LET starts == {1} \cup {i + 1 : i \in b}
        order  == CHOOSE f \in [1 .. Cardinality(starts) -> starts] :
                     \A i, j \in 1 .. Cardinality(starts) : i < j => f[i] < f[j]
        end(j) == IF j = Cardinality(starts) THEN Len(ts) + 1 ELSE order[j + 1]
    IN  [j \in 1 .. Cardinality(starts) |->
            [n |-> end(j) - order[j], typ |-> ts[order[j]]]]

\* The return statements translated: the failure shape with a value for the
\* tail, and the success shape with a value of each result's type.
ValueOf(typ) == Operand("variable", typ, NoVal)
TranslateStmts(sig) ==
    {ExprList(<<x>>, 1) : x \in {FalseConst, TrueConst, ValueOf(sig.results.entangled.typ)}}
    \cup {ExprList([i \in 1 .. Len(sig.results.vars) |-> ValueOf(sig.results.vars[i].typ)],
                   Len(sig.results.vars) + 1)}

TranslateInit ==
    /\ LookupIdle
    /\ FlowIdle
    /\ FnIdle
    /\ \E k \in 1 .. MaxResults : \E ts \in SeqsOfLen(TranslateResultTypes, k) :
         \E b \in Groupings(ts) : \E tail \in TranslateTails :
            retSig = Sig(ts, tail, FieldsOf(ts, b))
    /\ retStmt = NoCall
    /\ retErrs = {}
    /\ retOut = NoCall

\* The checker processes one return statement; the translator rewrites it
\* if the checker reported nothing.
TranslateReturn ==
    /\ retStmt = NoCall
    /\ \E v \in TranslateStmts(retSig) :
         LET errs == Diagnostics(returnStmt(retSig, v))
         IN  /\ retStmt' = v
             /\ retErrs' = errs
             /\ retOut' = IF errs = {} THEN convertReturnStmt(retSig, v) ELSE NoCall
    /\ UNCHANGED <<retSig, lookupVars, flowVars, fnVars>>

TranslateNext == TranslateReturn

SpecTranslate == TranslateInit /\ [][TranslateNext]_vars

(***************************************************************************)
(* SpecFlow: the statements of one function body, checked in order.        *)
(*                                                                         *)
(* The variables are the checker's Var objects, identified by their        *)
(* position in objs; a scope maps names to them, and the objects of a      *)
(* scope go with it when it closes.  shortVarDecl, assignVars and          *)
(* assignVar are those of assignments.go.  The checking of if statements   *)
(* and of uses is not part of the sources at hand; it follows the rules of *)
(* flow-sensitive refinement: a scope holds what the conditions of the     *)
(* enclosing if statements prove.  The bodies considered declare no name   *)
(* that is visible already, test no variable again while a test of it is   *)
(* open or has proved something, and have in scope either the optional     *)
(* pointer x or the variables v, w, t of the entangled statements.         *)
(***************************************************************************)
MaxDepth == 3

NoCond == [id |-> NoId, op |-> "none"]
NoBinding == [tail |-> NoId, how |-> "none", errs |-> {}]

ErrNoNewVars  == "no new variables on left side of :="

Obj(name, typ, usable, aliased) ==
    [name |-> name, typ |-> typ, usable |-> usable, collapses |-> <<>>,
     aliased |-> aliased]

\* A scope: the names declared in it and the number of objects older than
\* it; for the block of an if statement the condition and whether the
\* then-branch left the block; what is proved while the scope is open;
\* whether its statements ended by leaving it; and the if statements
\* completed in it of which exactly one branch left.
Scope(kind, cond, proved, thenExits) ==
    [kind |-> kind, names |-> [n \in Names |-> NoId], base |-> Len(objs),
     cond |-> cond, proved |-> proved, exits |-> FALSE, thenExits |-> thenExits,
     hist |-> {}]

Reachable == scopes # <<>> /\ ~Top.exits

Fact(id, what) == [id |-> id, what |-> what]
provedNow(id, what) == \E i \in 1 .. Len(scopes) : Fact(id, what) \in scopes[i].proved

\* The type a use of the variable sees: the wrapped type where the variable
\* is proved not to be nil.
typeOf(id) ==
    IF objs[id].typ.k = "Optional" /\ provedNow(id, "nonnil")
    THEN objs[id].typ.elem ELSE objs[id].typ

\* Whether a use of the variable is allowed: the variable is usable, or the
\* tail that collapses it is proved to denote success.
usableNow(id) ==
    \/ objs[id].usable
    \/ \E t \in 1 .. Len(objs) :
          provedNow(t, "success") /\ id \in Range(objs[t].collapses)

\* Variant of Proofs with the branches swapped.
ProofsSwapped(cond, side) ==
    IF objs[cond.id].aliased # "no" THEN {}
    ELSE IF cond.op = "neq"
    THEN IF side THEN {Fact(cond.id, "success")} ELSE {Fact(cond.id, "nonnil")}
    ELSE IF cond.op = "eq"
    THEN IF side THEN {Fact(cond.id, "nonnil")} ELSE {Fact(cond.id, "success")}
    ELSE IF side THEN {} ELSE {Fact(cond.id, "success")}

\* Variant of Proofs that narrows aliased variables too.
ProofsIgnoringAliases(cond, side) ==
    IF cond.op = "neq"
    THEN IF side THEN {Fact(cond.id, "nonnil")} ELSE {Fact(cond.id, "success")}
    ELSE IF cond.op = "eq"
    THEN IF side THEN {Fact(cond.id, "success")} ELSE {Fact(cond.id, "nonnil")}
    ELSE IF side THEN {Fact(cond.id, "success")} ELSE {}

\* What the condition of an if statement proves along the branch taken when
\* it is true (side) or false: x != nil proves x not nil when true and nil
\* (success, for a tail) when false; x == nil the reverse; a boolean ok
\* proves success when true.  Nothing is proved of an aliased variable.
Proofs(cond, side) ==
    IF objs[cond.id].aliased # "no" THEN {}
    ELSE IF cond.op = "neq"
    THEN IF side THEN {Fact(cond.id, "nonnil")} ELSE {Fact(cond.id, "success")}
    ELSE IF cond.op = "eq"
    THEN IF side THEN {Fact(cond.id, "success")} ELSE {Fact(cond.id, "nonnil")}
    ELSE IF side THEN {Fact(cond.id, "success")} ELSE {}

\* Variant of exitProofs in which nothing outlives the if statement.
exitProofsNone(cond, thenExits, elseExits) == {}

\* What holds after an if statement: if exactly one branch leaves the block,
\* the statements after it run only when the other branch was taken.
exitProofs(cond, thenExits, elseExits) ==
    IF thenExits /\ ~elseExits THEN Proofs(cond, FALSE)
    ELSE IF elseExits /\ ~thenExits THEN Proofs(cond, TRUE)
    ELSE {}

\* Whether a variable is the subject of an open or completed if statement,
\* or is collapsed by a tail proved to denote success.
involved(id) ==
    \/ \E i \in 1 .. Len(scopes) :
          \/ scopes[i].cond.id = id
          \/ \E f \in scopes[i].proved : f.id = id
          \/ \E h \in scopes[i].hist : h.cond.id = id
    \/ \E t \in 1 .. Len(objs) :
          provedNow(t, "success") /\ id \in Range(objs[t].collapses)

\* Variant of entangle that leaves the variables as they are.
entangleNothing(os, lhsIds, tailId) == os

\* shortVarDecl and assignVars, after checkVars: the tail collapses the
\* variables before \ and these become unusable.  NoId stands for a dummy
\* variable, which no scope holds.
entangle(os, lhsIds, tailId) ==
    [k \in 1 .. Len(os) |->
        LET o == IF k = tailId THEN [os[k] EXCEPT !.collapses = lhsIds] ELSE os[k]
        IN  IF k \in Range(lhsIds) THEN [o EXCEPT !.usable = FALSE] ELSE o]

\* The entangled statements checked: v \ t from a call f() of type
\* (string \ ?error), v, w \ t from a call g() of type
\* (string, string \ ?error), and v \ t from a map index m[k].
CallF == Operand("value", Tuple(<<Var("", TString)>>, Var("", Optional(TError))), NoVal)
CallG ==
    Operand("value",
            Tuple(<<Var("", TString), Var("", TString)>>, Var("", Optional(TError))),
            NoVal)
MapIndex == Operand("mapindex", TString, NoVal)
Form(lhs, tail, x) == [lhs |-> lhs, tail |-> tail, rhs |-> ExprList(<<x>>, 0)]
EntangledForms ==
    {Form(<<"v">>, "t", CallF), Form(<<"v", "w">>, "t", CallG),
     Form(<<"v">>, "t", MapIndex)}

\* The operand checkVars handed to setVar for position i (from 0), if any.
wasSet(out, i) == \E s \in out.sets : s.i = i
operandSet(out, i) == (CHOOSE s \in out.sets : s.i = i).x

\* The identifiers of an entangled statement, the tail last.
idents(form) == form.lhs \o <<form.tail>>

\* shortVarDecl: the variable of identifier i, that of the current scope or
\* a new one, without a type yet.
declVar(form, i) ==
    [name |-> idents(form)[i], expr |-> idents(form)[i],
     typ |-> IF ScopeLookup(idents(form)[i]) # NoId
             THEN objs[ScopeLookup(idents(form)[i])].typ ELSE NoType]

\* shortVarDecl after initVars returned out: the new variables are declared
\* with the types initVar gave them; the tail then collapses the others.
declare(form, out) ==
    LET all     == idents(form)
        n       == Len(all)
        newPos  == {i \in 1 .. n : ScopeLookup(all[i]) = NoId}
        idOf(i) == IF ScopeLookup(all[i]) # NoId THEN ScopeLookup(all[i])
                   ELSE Len(objs) + Cardinality({j \in newPos : j <= i})
        newObj(i) ==
            IF /\ wasSet(out, i - 1)
               /\ operandSet(out, i - 1).mode # "invalid"
               /\ operandSet(out, i - 1).typ # UntypedNil
            THEN Obj(all[i], initVarType(declVar(form, i), operandSet(out, i - 1)),
                     TRUE, "no")
            ELSE Obj(all[i], InvalidType, FALSE, "no")
        declared == [k \in 1 .. (Len(objs) + Cardinality(newPos)) |->
                        IF k <= Len(objs) THEN objs[k]
                        ELSE newObj(CHOOSE i \in newPos : idOf(i) = k)]
        lhsIds  == [i \in 1 .. (n - 1) |-> idOf(i)]
    IN  [objs   |-> entangle(declared, lhsIds, idOf(n)),
         names  |-> [nm \in Names |->
                        IF \E i \in newPos : all[i] = nm
                        THEN idOf(CHOOSE i \in newPos : all[i] = nm)
                        ELSE Top.names[nm]],
         errs   |-> Diagnostics(out) \cup (IF newPos = {} THEN {ErrNoNewVars} ELSE {}),
         lhsIds |-> lhsIds,
         tailId |-> idOf(n)]

\* shortVarDecl: the variables before and after \ are those of the current
\* scope or new ones; initVars checks the right-hand side and gives new
\* variables their types; the new variables are declared; the tail then
\* collapses the others.
shortVarDecl(form) ==
    declare(form,
            initVars([i \in 1 .. Len(form.lhs) |-> declVar(form, i)], form.rhs, FALSE,
                     declVar(form, Len(form.lhs) + 1)))

\* assignVars: the variable of identifier i, that of the current scope or a
\* dummy.
assignedVar(form, i) ==
    [name |-> IF ScopeLookup(idents(form)[i]) # NoId THEN idents(form)[i] ELSE "_",
     expr |-> idents(form)[i],
     typ |-> IF ScopeLookup(idents(form)[i]) # NoId
             THEN objs[ScopeLookup(idents(form)[i])].typ ELSE NoType]

\* assignVars after checkVars returned out: assignVar marked usable the
\* variable each identifier denotes; the tail then collapses the others.
\* lhsIds and tailId are the variables the identifiers denote.
assigned(form, out) ==
    LET all     == idents(form)
        n       == Len(all)
        set     == {LookupParent(all[i]) :
                        i \in {j \in 1 .. n : /\ wasSet(out, j - 1)
                                              /\ operandSet(out, j - 1).mode # "invalid"}}
        marked  == [k \in 1 .. Len(objs) |->
                        IF k \in set THEN [objs[k] EXCEPT !.usable = TRUE]
                        ELSE objs[k]]
    IN  [objs   |-> entangle(marked, [i \in 1 .. (n - 1) |-> ScopeLookup(all[i])],
                             ScopeLookup(all[n])),
         errs   |-> Diagnostics(out),
         lhsIds |-> [i \in 1 .. (n - 1) |-> LookupParent(all[i])],
         tailId |-> LookupParent(all[n])]

\* assignVars with an entangled left-hand side: the variables are those of
\* the current scope, or dummies; checkVars checks the right-hand side,
\* setting each variable with assignVar.
assignVars(form) ==
    assigned(form,
             checkVars([i \in 1 .. Len(form.lhs) |-> assignedVar(form, i)], form.rhs,
                       FALSE, assignedVar(form, Len(form.lhs) + 1), "assignVar"))

\* Whether a value of the type can be dereferenced or called Error on.
projects(typ) ==
    IF typ.k = "Pointer" THEN TRUE
    ELSE IF typ.k = "Optional" /\ typ.elem.k = "Pointer" THEN FALSE
    ELSE LookupFieldOrMethod(typ, TRUE, "Error").obj # NoObj

\* The outcome of a use of the variable: reading it, or projecting it
\* (dereferencing it or calling its method Error).
useResult(id, op) ==
    IF ~usableNow(id) THEN "uninit"
    ELSE IF op = "project" /\ ~projects(typeOf(id)) THEN "optuse"
    ELSE "ok"

Stmt(stmt, errs) == [stmt |-> stmt, errs |-> errs]
Plain(stmt) == Stmt(stmt, {})
NoProbe == [id |-> NoId, op |-> "none", result |-> "none"]

\* boundBy after an entangled statement of kind how set lhsIds under tailId:
\* a variable the tail collapsed before and collapses no more is bound by
\* nothing.
bind(count, lhsIds, tailId, how, errs) ==
    [k \in 1 .. count |->
        IF k \in Range(lhsIds) THEN [tail |-> tailId, how |-> how, errs |-> errs]
        ELSE IF k <= Len(boundBy) /\ boundBy[k].tail # tailId THEN boundBy[k]
        ELSE NoBinding]

FlowInit ==
    /\ LookupIdle
    /\ RetIdle
    /\ FnIdle
    /\ objs = <<>>
    /\ scopes = <<[Scope("func", NoCond, {}, FALSE) EXCEPT !.base = 0]>>
    /\ boundBy = <<>>
    /\ last = Plain("func")
    /\ probe = NoProbe

\* The names that are in scope together.
Family(name) == IF name = "x" THEN {"x"} ELSE {"v", "w", "t"}
Declarable(name) ==
    /\ LookupParent(name) = NoId
    /\ \A k \in 1 .. Len(objs) : objs[k].name \in Family(name)

\* var name T: a new variable of the current scope.
Declare(name, o) ==
    /\ Reachable
    /\ Declarable(name)
    /\ objs' = Append(objs, o)
    /\ boundBy' = Append(boundBy, NoBinding)
    /\ scopes' = [scopes EXCEPT ![Len(scopes)].names[name] = Len(objs) + 1]
    /\ last' = Plain("stmt")
    /\ probe' = NoProbe
    /\ UNCHANGED <<lookupVars, retVars, fnVars>>

\* var x ?*int, in a function body that takes the address of x, assigns x
\* in a closure, or does neither.
DeclOpt ==
    \E aliased \in {"no", "addr", "closure"} :
        Declare("x", Obj("x", Optional(Pointer(TInt)), TRUE, aliased))

\* var v string, var t bool.
DeclVal ==
    \E nm \in {"v", "t"} :
        Declare(nm, Obj(nm, IF nm = "t" THEN TBool ELSE TString, TRUE, "no"))

\* The checker's state after an entangled statement with the outcome r.
Bound(r, stmt, how) ==
    /\ objs' = r.objs
    /\ boundBy' = bind(Len(r.objs), r.lhsIds, r.tailId, how, r.errs)
    /\ last' = Stmt(stmt, r.errs)
    /\ probe' = NoProbe
    /\ UNCHANGED <<lookupVars, retVars, fnVars>>

\* v \ t := f(), and the other forms.
ShortVarDecl ==
    /\ Reachable
    /\ \E form \in EntangledForms :
         /\ \A nm \in Range(form.lhs) \cup {form.tail} :
               IF ScopeLookup(nm) # NoId THEN ~involved(ScopeLookup(nm))
               ELSE Declarable(nm)
         /\ scopes' = [scopes EXCEPT ![Len(scopes)].names = shortVarDecl(form).names]
         /\ Bound(shortVarDecl(form), "shortVarDecl", "decl")

\* v \ t = m[k], and the other forms, with v and t declared.
AssignEntangled ==
    /\ Reachable
    /\ \E form \in EntangledForms :
         /\ \A nm \in Range(form.lhs) \cup {form.tail} :
               LookupParent(nm) # NoId /\ ~involved(LookupParent(nm))
         /\ Bound(assignVars(form), "assignVars", "assign")
    /\ UNCHANGED scopes

\* if x != nil {, if x == nil {, if t {: the then-branch opens.
If ==
    /\ Reachable
    /\ Len(scopes) < MaxDepth
    /\ \E nm \in Names, op \in {"neq", "eq", "istrue"} :
         LET cond == [id |-> LookupParent(nm), op |-> op]
         IN  /\ cond.id # NoId
             /\ usableNow(cond.id)
             /\ ~involved(cond.id)
             /\ IF op = "istrue" THEN isBoolean(typeOf(cond.id))
                ELSE typeOf(cond.id).k = "Optional"
             /\ scopes' = Append(scopes, Scope("then", cond, Proofs(cond, TRUE), FALSE))
    /\ last' = Plain("stmt")
    /\ probe' = NoProbe
    /\ UNCHANGED <<objs, boundBy, lookupVars, retVars, fnVars>>

\* } else {
Else ==
    /\ scopes # <<>>
    /\ Top.kind = "then"
    /\ objs' = SubSeq(objs, 1, Top.base)
    /\ boundBy' = SubSeq(boundBy, 1, Top.base)
    /\ scopes' = [scopes EXCEPT ![Len(scopes)] =
                     [Scope("else", Top.cond, Proofs(Top.cond, FALSE), Top.exits)
                         EXCEPT !.base = Top.base]]
    /\ last' = Plain("stmt")
    /\ probe' = NoProbe
    /\ UNCHANGED <<lookupVars, retVars, fnVars>>

\* } closing an if statement.
EndIf ==
    /\ scopes # <<>>
    /\ Top.kind \in {"then", "else"}
    /\ LET thenExits == IF Top.kind = "then" THEN Top.exits ELSE Top.thenExits
           elseExits == Top.kind = "else" /\ Top.exits
           outer     == scopes[Len(scopes) - 1]
       IN  scopes' =
                [SubSeq(scopes, 1, Len(scopes) - 1) EXCEPT ![Len(scopes) - 1] =
                    [outer EXCEPT
                        !.proved = @ \cup exitProofs(Top.cond, thenExits, elseExits),
                        !.exits  = @ \/ (thenExits /\ elseExits),
                        !.hist   = @ \cup
                            (IF thenExits # elseExits
                             THEN {[cond |-> Top.cond, thenExits |-> thenExits]}
                             ELSE {})]]
    /\ objs' = SubSeq(objs, 1, Top.base)
    /\ boundBy' = SubSeq(boundBy, 1, Top.base)
    /\ last' = Plain("stmt")
    /\ probe' = NoProbe
    /\ UNCHANGED <<lookupVars, retVars, fnVars>>

\* {
OpenBlock ==
    /\ Reachable
    /\ Len(scopes) < MaxDepth
    /\ scopes' = Append(scopes, Scope("block", NoCond, {}, FALSE))
    /\ last' = Plain("stmt")
    /\ probe' = NoProbe
    /\ UNCHANGED <<objs, boundBy, lookupVars, retVars, fnVars>>

\* } closing a block.
CloseBlock ==
    /\ scopes # <<>>
    /\ Top.kind = "block"
    /\ scopes' = [SubSeq(scopes, 1, Len(scopes) - 1) EXCEPT ![Len(scopes) - 1].exits =
                     @ \/ Top.exits]
    /\ objs' = SubSeq(objs, 1, Top.base)
    /\ boundBy' = SubSeq(boundBy, 1, Top.base)
    /\ last' = Plain("stmt")
    /\ probe' = NoProbe
    /\ UNCHANGED <<lookupVars, retVars, fnVars>>

\* return, in a branch or a block.
Return ==
    /\ Reachable
    /\ Top.kind # "func"
    /\ scopes' = [scopes EXCEPT ![Len(scopes)].exits = TRUE]
    /\ last' = Plain("stmt")
    /\ probe' = NoProbe
    /\ UNCHANGED <<objs, boundBy, lookupVars, retVars, fnVars>>

\* _ = &x, or _ = func() { x = nil }, in a body that was declared to.
Alias ==
    /\ Reachable
    /\ \E nm \in Names :
         /\ LookupParent(nm) # NoId
         /\ objs[LookupParent(nm)].aliased # "no"
         /\ last' = Plain(objs[LookupParent(nm)].aliased)
    /\ probe' = NoProbe
    /\ UNCHANGED <<objs, scopes, boundBy, lookupVars, retVars, fnVars>>

\* _ = v, or _ = *x, err.Error(): a use of a variable.
Use ==
    /\ Reachable
    /\ \E nm \in Names, op \in {"read", "project"} :
         LET id == LookupParent(nm)
         IN  /\ id # NoId
             /\ op = "project" => objs[id].typ.k = "Optional"
             /\ probe' = [id |-> id, op |-> op, result |-> useResult(id, op)]
    /\ UNCHANGED <<objs, scopes, boundBy, last, lookupVars, retVars, fnVars>>

FlowNext ==
    \/ DeclOpt \/ DeclVal \/ ShortVarDecl \/ AssignEntangled
    \/ If \/ Else \/ EndIf \/ OpenBlock \/ CloseBlock \/ Return
    \/ Alias \/ Use

SpecFlow == FlowInit /\ [][FlowNext]_vars

(***************************************************************************)
(* SpecOptionables: FindOptionables (lookup.go) on composite types.        *)
(*                                                                         *)
(* A path is a Go slice of steps: a backing array, shared by the slices    *)
(* cut from it, and a length.  append writes in place while the array has  *)
(* room and copies to an array twice as large when it has none.            *)
(***************************************************************************)
MaxNest == 4

Method(n, sig) == [kind |-> "Func", name |-> n, recv |-> NoType, typ |-> sig]

\* IsOptionable: the kinds of types that have nil among their values.
IsOptionable(typ) == typ.k \in {"Pointer", "Map", "Interface", "Chan", "Signature"}

OptionablePathStep(T, key, field, param) ==
    [Type |-> T, Key |-> key, Field |-> field, Param |-> param]

NilSlice == [arr |-> 0, len |-> 0]

\* The steps a slice holds.
stepsOf(heap, slice) ==
    IF slice.arr = 0 THEN <<>> ELSE SubSeq(heap[slice.arr].elems, 1, slice.len)

\* The capacity append gives the array of a slice that is full.
growslice(cap) == IF cap = 0 THEN 1 ELSE 2 * cap

\* append(path, st): the heap after it and the slice it returns.
append(heap, path, st) ==
    IF path.arr # 0 /\ path.len < heap[path.arr].cap
    THEN [heap  |-> [heap EXCEPT ![path.arr].elems =
                        SubSeq(@, 1, path.len) \o <<st>> \o SubSeq(@, path.len + 2, Len(@))],
          slice |-> [arr |-> path.arr, len |-> path.len + 1]]
    ELSE [heap  |-> Append(heap, [cap   |-> growslice(path.len),
                                  elems |-> stepsOf(heap, path) \o <<st>>]),
          slice |-> [arr |-> Len(heap) + 1, len |-> path.len + 1]]

\* A recursive call of findOptionables2 on a component of T.
Component(typ, st, allUncheckable) ==
    [typ |-> typ, step |-> st, allUncheckable |-> allUncheckable]

\* The parameters and then the results of a signature, as the components
\* reached from T through its method mi (0 for a function type).
signatureComponents(T, sig, mi) ==
    [i \in 1 .. Len(sig.params) |->
        Component(sig.params[i], OptionablePathStep(T, FALSE, mi, i - 1), TRUE)]
    \o [i \in 1 .. Len(sig.results) |->
        Component(sig.results[i], OptionablePathStep(T, FALSE, mi, 0 - i), TRUE)]

RECURSIVE methodComponents(_, _)
methodComponents(T, mi) ==
    IF mi >= Len(T.allMethods) THEN <<>>
    ELSE signatureComponents(T, T.allMethods[mi + 1].typ, mi) \o methodComponents(T, mi + 1)

\* The components findOptionables2 descends into, in its order.
components(T, allUncheckable) ==
    IF T.k = "Pointer"
    THEN <<Component(T.elem, OptionablePathStep(T, FALSE, 0, 0), allUncheckable)>>
    ELSE IF T.k = "Map"
    THEN <<Component(T.key, OptionablePathStep(T, TRUE, 0, 0), TRUE),
           Component(T.elem, OptionablePathStep(T, FALSE, 0, 0), TRUE)>>
    ELSE IF T.k = "Signature" THEN signatureComponents(T, T, 0)
    ELSE IF T.k = "Interface" THEN methodComponents(T, 0)
    ELSE IF T.k \in {"Slice", "Array", "Chan"}
    THEN <<Component(T.elem, OptionablePathStep(T, FALSE, 0, 0), TRUE)>>
    ELSE IF T.k = "Struct"
    THEN [i \in 1 .. Len(T.fields) |->
            Component(T.fields[i].typ, OptionablePathStep(T, FALSE, i - 1, 0),
                      allUncheckable)]
    ELSE <<>>

\* *checkable = append(*checkable, path), where checkable is uncheckable
\* under allUncheckable.
found(F, path, allUncheckable) ==
    IF allUncheckable THEN [F EXCEPT !.uncheckable = Append(@, path)]
    ELSE [F EXCEPT !.checkable = Append(@, path)]

RECURSIVE findOptionables2(_, _, _, _, _)
RECURSIVE findComponents(_, _, _, _)

\* The loop over the components: each is searched under path extended by
\* its step.
findComponents(cs, i, path, F) ==
    IF i > Len(cs) THEN F
    ELSE findComponents(cs, i + 1, path,
            findOptionables2(cs[i].typ, append(F.heap, path, cs[i].step).slice,
                             cs[i].allUncheckable, FALSE,
                             [F EXCEPT !.heap = append(F.heap, path, cs[i].step).heap]))

findOptionables2(T, path, allUncheckable, wrapped, F) ==
    IF T.k = "Optional" THEN findOptionables2(T.elem, path, allUncheckable, TRUE, F)
    ELSE IF T.k = "Named"
    THEN IF ~wrapped /\ IsOptionable(Underlying(T))
         THEN found(F, path, allUncheckable) ELSE F
    ELSE IF IsOptionable(T) /\ ~wrapped
    THEN findComponents(components(T, allUncheckable), 1, path,
                        found(F, path, allUncheckable))
    ELSE findComponents(components(T, allUncheckable), 1, path, F)

\* The paths a list of slices holds when the search is over.
pathsOf(F, list) == [i \in 1 .. Len(list) |-> stepsOf(F.heap, list[i])]

NoPaths == [heap |-> <<>>, checkable |-> <<>>, uncheckable |-> <<>>]
pathsFound(F) ==
    [checkable |-> pathsOf(F, F.checkable), uncheckable |-> pathsOf(F, F.uncheckable)]
FindOptionables(T) == pathsFound(findOptionables2(T, NilSlice, FALSE, FALSE, NoPaths))

\* The types searched: a leaf under at most MaxNest constructors.
OptionableLeaves ==
    {TInt, TError, Array(Pointer(TInt)),
     Interface(<<Method("M", Signature(<<TInt, Pointer(TInt)>>, <<Pointer(TInt)>>))>>)}
Constructed(t) ==
    {Pointer(t), Optional(Pointer(t)), Slice(t), Chan(t), Map(Pointer(TInt), t),
     Signature(<<t>>, <<Pointer(TInt)>>),
     Struct(<<Field("p", t, FALSE), Field("q", Pointer(TInt), FALSE)>>)}
RECURSIVE TypesNested(_)
TypesNested(n) ==
    IF n = 0 THEN OptionableLeaves
    ELSE LET inner == TypesNested(n - 1)
         IN  inner \cup UNION {Constructed(t) : t \in inner}
OptionableTypes == TypesNested(MaxNest)

OthersIdle == LookupIdle /\ RetIdle /\ FlowIdle

OptionablesInit ==
    /\ OthersIdle
    /\ fnIn \in [fn : {"FindOptionables"}, T : OptionableTypes]
    /\ fnOut = NoCall

FindOptionablesCall ==
    /\ fnIn.fn = "FindOptionables"
    /\ fnOut = NoCall
    /\ fnOut' = FindOptionables(fnIn.T)
    /\ UNCHANGED <<fnIn, lookupVars, retVars, flowVars>>

OptionablesNext == FindOptionablesCall

SpecOptionables == OptionablesInit /\ [][OptionablesNext]_vars

(***************************************************************************)
(* SpecAssert: the translation of a type assertion x.(U) (codegen.go,      *)
(* convertTypeAssertExpr) and what the emitted function literal does when  *)
(* it runs on the value x holds.                                           *)
(***************************************************************************)
\* The expressions the emitted code tests against nil.
SgoV == [e |-> "__sgo_v"]
Star(x) == [e |-> "*", x |-> x]
Sel(x, name, index) == [e |-> ".", x |-> x, name |-> name, index |-> index]

\* typeAssertOptionables: the expression for one path, step by step.
RECURSIVE checkExpr(_, _, _)
checkExpr(check, i, expr) ==
    IF i > Len(check) THEN expr
    ELSE checkExpr(check, i + 1,
            IF check[i].Type.k = "Pointer" THEN Star(expr)
            ELSE IF check[i].Type.k = "Struct"
            THEN Sel(expr, check[i].Type.fields[check[i].Field + 1].name, check[i].Field + 1)
            ELSE expr)

\* typeAssertOptionables: the function literal emitted, by its parts: the
\* form of the assertion and the expressions compared with nil, in order.
typeAssertOptionables(commaOk, checks) ==
    [wrapped |-> TRUE, commaOk |-> commaOk,
     exprs |-> [i \in 1 .. Len(checks) |-> checkExpr(checks[i], 1, SgoV)]]

\* convertTypeAssertExpr: the assertion is copied when its type has no
\* checkable path.
checkedAssertion(commaOk, checks) ==
    IF Len(checks) = 0 THEN [wrapped |-> FALSE, commaOk |-> commaOk, exprs |-> <<>>]
    ELSE typeAssertOptionables(commaOk, checks)
convertTypeAssertExpr(U, commaOk) == checkedAssertion(commaOk, FindOptionables(U).checkable)

\* Values at run time: nil, a pointer to a value, a struct of the values of
\* its fields, or any other value.
Nil == [v |-> "nil"]
Fault == [v |-> "fault"]
SomeValue == [v |-> "value"]
PointerTo(x) == [v |-> "pointer", elem |-> x]
StructOf(fs) == [v |-> "struct", fields |-> fs]

RECURSIVE Values(_)
RECURSIVE FieldValues(_, _)
FieldValues(T, n) ==
    IF n = 0 THEN {<<>>}
    ELSE {Append(fs, x) : fs \in FieldValues(T, n - 1), x \in Values(T.fields[n].typ)}
Values(T) ==
    IF T.k = "Optional" THEN Values(T.elem)
    ELSE IF T.k = "Pointer" THEN {Nil} \cup {PointerTo(x) : x \in Values(T.elem)}
    ELSE IF T.k = "Struct" THEN {StructOf(fs) : fs \in FieldValues(T, Len(T.fields))}
    ELSE IF IsOptionable(Underlying(T)) THEN {Nil, SomeValue}
    ELSE {SomeValue}

\* Go's evaluation of an expression of the emitted code on the asserted
\* value: dereferencing nil is a run-time panic.
RECURSIVE eval(_, _)
eval(expr, v) ==
    IF expr.e = "__sgo_v" THEN v
    ELSE IF eval(expr.x, v) \in {Fault, Nil} THEN Fault
    ELSE IF expr.e = "*" THEN eval(expr.x, v).elem
    ELSE eval(expr.x, v).fields[expr.index]

PanicConversion == "interface conversion: interface is not of the asserted type"
PanicNilValue   == "interface conversion: nil value when type-asserting to non-optional"
PanicNilDeref   == "invalid memory address or nil pointer dereference"

Outcome(panic, expr, v, ok) == [panic |-> panic, expr |-> expr, v |-> v, ok |-> ok]

\* The first of the comparisons e == nil, in order, that does not evaluate
\* to false, or 0: Go evaluates || and the cases of a switch from the left.
firstNil(exprs, v) ==
    IF \E i \in 1 .. Len(exprs) : eval(exprs[i], v) \in {Fault, Nil}
    THEN CHOOSE i \in 1 .. Len(exprs) :
            /\ eval(exprs[i], v) \in {Fault, Nil}
            /\ \A j \in 1 .. (i - 1) : eval(exprs[j], v) \notin {Fault, Nil}
    ELSE 0

\* The emitted code run on x, which holds a value of the asserted type
\* (x.match) or of another type.
execute(code, x) ==
    IF ~x.match
    THEN IF code.commaOk THEN Outcome(NoPanic, SgoV, Nil, FALSE)
         ELSE Outcome(PanicConversion, SgoV, Nil, FALSE)
    ELSE IF firstNil(code.exprs, x.v) = 0 THEN Outcome(NoPanic, SgoV, x.v, TRUE)
    ELSE IF eval(code.exprs[firstNil(code.exprs, x.v)], x.v) = Fault
    THEN Outcome(PanicNilDeref, code.exprs[firstNil(code.exprs, x.v)], Nil, FALSE)
    ELSE IF code.commaOk THEN Outcome(NoPanic, SgoV, x.v, FALSE)
    ELSE Outcome(PanicNilValue, code.exprs[firstNil(code.exprs, x.v)], Nil, FALSE)

\* The asserted types: pointers, optional pointers and structs around a
\* leaf; none has an unchecked path.
AssertLeaves == {TInt, TError, Chan(TInt)}
AssertConstructed(t) ==
    {Pointer(t), Optional(Pointer(t)),
     Struct(<<Field("p", t, FALSE), Field("q", Pointer(TInt), FALSE)>>)}
RECURSIVE AssertNested(_)
AssertNested(n) ==
    IF n = 0 THEN AssertLeaves
    ELSE LET inner == AssertNested(n - 1)
         IN  inner \cup UNION {AssertConstructed(t) : t \in inner}
AssertTypes == AssertNested(MaxNest)

AssertedValues(U) == {[match |-> FALSE, v |-> Nil]} \cup {[match |-> TRUE, v |-> v] : v \in Values(U)}

AssertInit ==
    /\ OthersIdle
    /\ \E U \in AssertTypes, commaOk \in BOOLEAN :
          \E x \in AssertedValues(U) :
              fnIn = [fn |-> "convertTypeAssertExpr", U |-> U, commaOk |-> commaOk, x |-> x]
    /\ fnOut = NoCall

\* The translator emits the code for the assertion.
ConvertTypeAssert ==
    /\ fnIn.fn = "convertTypeAssertExpr"
    /\ fnOut = NoCall
    /\ fnOut' = [code |-> convertTypeAssertExpr(fnIn.U, fnIn.commaOk), outcome |-> NoCall]
    /\ UNCHANGED <<fnIn, lookupVars, retVars, flowVars>>

\* The emitted code runs.
RunTypeAssert ==
    /\ fnIn.fn = "convertTypeAssertExpr"
    /\ fnOut # NoCall
    /\ fnOut.outcome = NoCall
    /\ fnOut.code.wrapped
    /\ fnOut' = [fnOut EXCEPT !.outcome = execute(fnOut.code, fnIn.x)]
    /\ UNCHANGED <<fnIn, lookupVars, retVars, flowVars>>

AssertNext == ConvertTypeAssert \/ RunTypeAssert

SpecAssert == AssertInit /\ [][AssertNext]_vars

(***************************************************************************)
(* SpecAssertable: the checker's test of the type U of an assertion x.(U)  *)
(* (lookup.go, assertableTo).                                              *)
(***************************************************************************)
\* assertableTo with the unchecked list replaced by the checkable one.
assertableToCheckable(T) ==
    [needsOptional |-> FindOptionables(T).checkable,
     methodsCompared |-> Len(FindOptionables(T).checkable) = 0 /\ ~IsInterface(T)]

\* assertableTo: the unchecked paths of T; the methods of T are compared
\* with those of the operand only when there is none and T is not an
\* interface.
assertableTo(T) ==
    [needsOptional |-> FindOptionables(T).uncheckable,
     methodsCompared |-> Len(FindOptionables(T).uncheckable) = 0 /\ ~IsInterface(T)]

\* The checker's use of assertableTo: the assertion is rejected with
\* AssertionHasUncheckablePath when a path is returned.
typeAssertion(T) ==
    [fn |-> "assertableTo", needsOptional |-> assertableTo(T).needsOptional,
     errs |-> IF Len(assertableTo(T).needsOptional) > 0
              THEN {"AssertionHasUncheckablePath"} ELSE {}]

AssertableInit ==
    /\ OthersIdle
    /\ fnIn \in [fn : {"assertableTo"}, T : OptionableTypes]
    /\ fnOut = NoCall

AssertableTo ==
    /\ fnIn.fn = "assertableTo"
    /\ fnOut = NoCall
    /\ fnOut' = typeAssertion(fnIn.T)
    /\ UNCHANGED <<fnIn, lookupVars, retVars, flowVars>>

AssertableNext == AssertableTo

SpecAssertable == AssertableInit /\ [][AssertableNext]_vars

(***************************************************************************)
(* SpecConvert: the translation of a file the checker accepted             *)
(* (codegen.go, convertAST).  The source is a sequence of tokens, comments *)
(* and line ends; the nodes of the syntax tree are given with the position *)
(* of their first token, counted from 1.                                   *)
(***************************************************************************)
Tok(s) == [comment |-> FALSE, text |-> <<s>>]
Comment(text) == [comment |-> TRUE, text |-> text]
NewLine == Tok("\n")
Toks(ss) == [i \in 1 .. Len(ss) |-> Tok(ss[i])]

\* The nodes of the syntax tree.
Ident(name) == [n |-> "Ident", Name |-> name]
StarExpr(x) == [n |-> "StarExpr", X |-> x]
OptionalType(elt) == [n |-> "OptionalType", Elt |-> elt]
ArrayType(elt) == [n |-> "ArrayType", Elt |-> elt]
StructType(name, typ) == [n |-> "StructType", Name |-> name, Type |-> typ]
CallExpr(fun) == [n |-> "CallExpr", Fun |-> fun]
CompositeLit(typ) == [n |-> "CompositeLit", Type |-> typ]
NoField == [n |-> "none"]
FieldList(list, entangled) == [List |-> list, Entangled |-> entangled]
ReturnStmt(results) == [n |-> "ReturnStmt", Results |-> results]
AssignStmt(lhs, tok, rhs) == [n |-> "AssignStmt", Lhs |-> lhs, Tok |-> tok, Rhs |-> rhs]
DeclStmt(name, typ) == [n |-> "DeclStmt", Name |-> name, Type |-> typ]
FuncDecl(name, results, body) == [Name |-> name, Results |-> results, Body |-> body]

\* The text of a node, as the source has it and as the printer prints it.
RECURSIVE printer(_)
printer(e) ==
    IF e.n = "Ident" THEN <<e.Name>>
    ELSE IF e.n = "StarExpr" THEN <<"*">> \o printer(e.X)
    ELSE IF e.n = "OptionalType" THEN <<"?">> \o printer(e.Elt)
    ELSE IF e.n = "ArrayType" THEN <<"[", "]">> \o printer(e.Elt)
    ELSE IF e.n = "StructType" THEN <<"struct", "{", e.Name>> \o printer(e.Type) \o <<"}">>
    ELSE IF e.n = "CallExpr" THEN printer(e.Fun) \o <<"(", ")">>
    ELSE printer(e.Type) \o <<"{", "}">>

RECURSIVE Join(_)
Join(list) ==
    IF Len(list) = 0 THEN <<>>
    ELSE IF Len(list) = 1 THEN printer(list[1])
    ELSE printer(list[1]) \o <<",">> \o Join(Tail(list))

printFields(v) ==
    Join(v.List) \o (IF v.Entangled = NoField THEN <<>> ELSE <<"\\">> \o printer(v.Entangled))
printFuncType(results) == <<"func", "(", ")", "(">> \o printFields(results) \o <<")">>
printExprList(v) ==
    IF v.EntangledPos = 0 THEN Join(v.List)
    ELSE Join(SubSeq(v.List, 1, v.EntangledPos - 1)) \o <<"\\">>
         \o Join(SubSeq(v.List, v.EntangledPos, Len(v.List)))
printStmt(s) ==
    IF s.n = "ReturnStmt" THEN <<"return">> \o printExprList(s.Results)
    ELSE IF s.n = "AssignStmt" THEN printExprList(s.Lhs) \o <<s.Tok>> \o printExprList(s.Rhs)
    ELSE <<"var", s.Name>> \o printer(s.Type)

\* The source text of a file with one function.
render(file) ==
    Toks(<<"package", "p">>) \o <<NewLine>>
    \o Toks(<<"func", file.Name>> \o Tail(printFuncType(file.Results)) \o <<"{">>) \o <<NewLine>>
    \o Toks(printStmt(file.Body)) \o <<NewLine>>
    \o Toks(<<"}">>) \o <<NewLine>>

\* The position of the first token s of a node in the text.
PosOf(src, s) == CHOOSE i \in 1 .. Len(src) : src[i] = Tok(s) /\ \A j \in 1 .. (i - 1) : src[j] # Tok(s)

\* c.Types: the type of a type expression.
RECURSIVE TypeOf(_)
TypeOf(e) ==
    IF e.n = "Ident"
    THEN (IF e.Name = "int" THEN TInt ELSE IF e.Name = "bool" THEN TBool ELSE Named(e.Name))
    ELSE IF e.n = "StarExpr" THEN Pointer(TypeOf(e.X))
    ELSE IF e.n = "OptionalType" THEN Optional(TypeOf(e.Elt))
    ELSE IF e.n = "ArrayType" THEN Slice(TypeOf(e.Elt))
    ELSE Struct(<<Field(e.Name, TypeOf(e.Type), FALSE)>>)

\* The converter: the chunks emitted, the source consumed (lastChunkEnd),
\* the source lines passed, and the panic raised if any.
Converter(dstChunks, lastChunkEnd, newLines, panic) ==
    [dst |-> dstChunks, last |-> lastChunkEnd, newLines |-> newLines, panic |-> panic]
Panicked(c, panic) == IF c.panic # NoPanic THEN c ELSE [c EXCEPT !.panic = panic]
PanicSlice == "panic: slice bounds out of range"

\* putSourceMap: the chunk with a position comment at the start of every
\* line but the first that is not blank and does not start with a comment.
Marker(line) == Comment(<<"f.sgo", ToString(line)>>)
RECURSIVE putSourceMap(_, _, _, _, _)
putSourceMap(bs, i, newLines, incrLines, ret) ==
    IF i > Len(bs) THEN [ret |-> ret, newLines |-> newLines]
    ELSE IF bs[i] # NewLine THEN putSourceMap(bs, i + 1, newLines, incrLines, Append(ret, bs[i]))
    ELSE putSourceMap(bs, i + 1, IF incrLines THEN newLines + 1 ELSE newLines, incrLines,
            ret \o <<NewLine>>
            \o (IF i < Len(bs) /\ bs[i + 1] # NewLine /\ ~bs[i + 1].comment
                THEN <<Marker((IF incrLines THEN newLines + 1 ELSE newLines) + 1)>> ELSE <<>>))

\* putChunks(newEnd, c.src[c.lastChunkEnd:to], added), with positions
\* counted in tokens consumed.
putChunks(src, c, newEnd, to, added) ==
    IF c.panic # NoPanic THEN c
    ELSE IF to < c.last \/ to > Len(src) THEN Panicked(c, PanicSlice)
    ELSE Converter(
            c.dst \o putSourceMap(SubSeq(src, c.last + 1, to), 1, c.newLines, TRUE, <<>>).ret
                  \o putSourceMap(added, 1, 0, FALSE, <<>>).ret,
            newEnd,
            putSourceMap(SubSeq(src, c.last + 1, to), 1, c.newLines, TRUE, <<>>).newLines,
            NoPanic)

\* convertExpr on the node e whose first token is at p.  An optional type
\* copies the source up to its ? and resumes after it.
RECURSIVE convertExpr(_, _, _, _)
convertExpr(src, c, e, p) ==
    IF e.n = "Ident" THEN c
    ELSE IF e.n = "StarExpr" THEN convertExpr(src, c, e.X, p + 1)
    ELSE IF e.n = "OptionalType"
    THEN convertExpr(src, putChunks(src, c, p, p - 1, <<>>), e.Elt, p + 1)
    ELSE IF e.n = "ArrayType" THEN convertExpr(src, c, e.Elt, p + 2)
    ELSE IF e.n = "StructType" THEN convertExpr(src, c, e.Type, p + 3)
    ELSE IF e.n = "CallExpr" THEN convertExpr(src, c, e.Fun, p)
    ELSE convertExpr(src, c, e.Type, p)

\* The loop of convertFieldList over v.List from field i, which is at p.
RECURSIVE convertFields(_, _, _, _, _)
convertFields(src, c, list, i, p) ==
    IF i > Len(list) THEN c
    ELSE convertFields(src, convertExpr(src, c, list[i], p), list, i + 1,
                       p + Len(printer(list[i])) + 1)

\* convertFieldList: the text between the last field and the entangled one
\* is replaced by a comma.
convertFieldList(src, c, v, p) ==
    IF v.Entangled = NoField THEN convertFields(src, c, v.List, 1, p)
    ELSE IF Len(v.List) = 0 THEN Panicked(c, PanicIndex)
    ELSE convertExpr(src,
            putChunks(src, convertFields(src, c, v.List, 1, p),
                      p + Len(Join(v.List)), p + Len(Join(v.List)) - 1, <<Tok(",")>>),
            v.Entangled, p + Len(Join(v.List)) + 1)

\* convertExprList from expression i, which is at p: the text between the
\* expression before the entangled one and the entangled one is replaced by
\* a comma.
RECURSIVE convertExprList(_, _, _, _, _)
convertExprList(src, c, v, i, p) ==
    IF i > Len(v.List) THEN c
    ELSE convertExprList(src,
            convertExpr(src,
                IF i # v.EntangledPos THEN c
                ELSE IF i = 1 THEN Panicked(c, PanicIndex)
                ELSE putChunks(src, c, p - 1, p - 2, <<Tok(",")>>),
                v.List[i], p),
            v, i + 1, p + Len(printer(v.List[i])) + 1)

\* convertReturnStmt, the text injected for result i (counted from 0) of a
\* failure-shape return: a struct type is printed from the declaration of
\* the results.
zeroText(results, i) ==
    LET underlying == Underlying(TypeOf(results.List[i + 1]))
    IN  IF underlying.k \in {"Pointer", "Map", "Slice", "Signature", "Interface", "Optional"}
        THEN <<"nil">>
        ELSE IF underlying.k = "Struct" THEN printer(results.List[i + 1]) \o <<"{", "}">>
        ELSE IF underlying.k = "Basic"
        THEN (IF underlying.name = "bool" THEN <<"false">>
              ELSE IF underlying.name = "int" THEN <<"0">>
              ELSE IF underlying.name = "float64" THEN <<"0.0">>
              ELSE IF underlying.name = "string" THEN <<"\"\"">>
              ELSE <<"nil">>)
        ELSE <<>>
RECURSIVE zeroTexts(_, _)
zeroTexts(results, i) ==
    IF i >= Len(results.List) THEN <<>>
    ELSE zeroText(results, i) \o <<",">> \o zeroTexts(results, i + 1)
unhandledType(results) ==
    \E i \in 1 .. Len(results.List) :
        Underlying(TypeOf(results.List[i])).k \in {"Chan", "Array", "Tuple"}

\* convertReturnStmt on the statement at p in a function with the given
\* results.
convertReturn(src, c, results, v, p) ==
    IF v.Results.EntangledPos = 1
    THEN IF unhandledType(results) THEN Panicked(c, PanicUnhandled)
         ELSE convertFields(src,
                putChunks(src, c, p + 1, p, Toks(zeroTexts(results, 0))),
                v.Results.List, 1, p + 2)
    ELSE IF v.Results.EntangledPos > 1
    THEN putChunks(src, convertFields(src, c, v.Results.List, 1, p + 1),
                   p + 1 + Len(Join(v.Results.List)), p + Len(Join(v.Results.List)),
                   Toks(<<",", IF TypeOf(results.Entangled) = TBool THEN "true" ELSE "nil">>))
    ELSE convertFields(src, c, v.Results.List, 1, p + 1)

\* convertStmt on the statement at p: a return statement, an assignment,
\* or the declaration of a variable with its type.
convertStmt(src, c, results, v, p) ==
    IF v.n = "ReturnStmt" THEN convertReturn(src, c, results, v, p)
    ELSE IF v.n = "AssignStmt"
    THEN convertExprList(src, convertExprList(src, c, v.Lhs, 1, p), v.Rhs, 1,
                         p + Len(printExprList(v.Lhs)) + 1)
    ELSE convertExpr(src, c, v.Type, p + 2)

\* annotationsFromDocs: the comment for the declaration of an exported
\* function, with its type as written.
Exported(name) == name = "F"
annotationsFromDocs(file) ==
    IF Exported(file.Name)
    THEN <<Comment(<<"For SGo:">> \o printFuncType(file.Results)), NewLine>>
    ELSE <<>>

\* convertFuncDecl on the declaration at p.
convertFuncDecl(src, c, file, p) ==
    convertStmt(src,
        convertFieldList(src,
            IF annotationsFromDocs(file) = <<>> THEN c
            ELSE putChunks(src, c, p - 1, p - 1, annotationsFromDocs(file)),
            file.Results, p + 5),
        file.Results, file.Body, PosOf(src, printStmt(file.Body)[1]))

autogenComment == <<Comment(<<"Autogenerated by SGo. DO NOT EDIT!">>), NewLine, NewLine>>

\* convertAST: the header, the file, and the rest of the source.
convertedFile(src, c) == putChunks(src, c, 0, Len(src), <<>>)
convertAST(file, src) ==
    convertedFile(src,
        convertFuncDecl(src,
            putChunks(src, Converter(<<>>, 0, 0, NoPanic), 0, 0, autogenComment),
            file, PosOf(src, "func")))

\* The syntax tree of the translation of a file: the types without ?, the
\* entangled result as the last result, and the statement as rewritten.
RECURSIVE goType(_)
goType(e) ==
    IF e.n = "Ident" THEN e
    ELSE IF e.n = "StarExpr" THEN StarExpr(goType(e.X))
    ELSE IF e.n = "OptionalType" THEN goType(e.Elt)
    ELSE IF e.n = "ArrayType" THEN ArrayType(goType(e.Elt))
    ELSE StructType(e.Name, goType(e.Type))
zeroExpr(results, i) ==
    IF Underlying(TypeOf(results.List[i + 1])).k = "Struct" THEN CompositeLit(results.List[i + 1])
    ELSE Ident(zeroText(results, i)[1])
goStmt(results, v) ==
    IF v.n = "ReturnStmt"
    THEN ReturnStmt(ExprList(
            IF v.Results.EntangledPos = 1
            THEN [i \in 1 .. Len(results.List) |-> zeroExpr(results, i - 1)] \o v.Results.List
            ELSE IF v.Results.EntangledPos > 1
            THEN Append(v.Results.List,
                        Ident(IF TypeOf(results.Entangled) = TBool THEN "true" ELSE "nil"))
            ELSE v.Results.List, 0))
    ELSE IF v.n = "AssignStmt" THEN AssignStmt(ExprList(v.Lhs.List, 0), v.Tok, v.Rhs)
    ELSE DeclStmt(v.Name, goType(v.Type))
goFile(file) ==
    FuncDecl(file.Name,
             FieldList([i \in 1 .. Len(file.Results.List) |-> goType(file.Results.List[i])]
                       \o (IF file.Results.Entangled = NoField THEN <<>>
                           ELSE <<goType(file.Results.Entangled)>>), NoField),
             goStmt(file.Results, file.Body))

\* The tokens of a text, without its comments and line ends.
Code(text) == SelectSeq(text, LAMBDA t : ~t.comment /\ t # NewLine)

\* The files translated: a function with one or two results and an
\* entangled one, and one statement in its body.
ResultTypeExprs ==
    {Ident("int"), Ident("S"), StarExpr(Ident("int")), OptionalType(StarExpr(Ident("int"))),
     StarExpr(OptionalType(StarExpr(Ident("int")))),
     ArrayType(OptionalType(StarExpr(Ident("int")))),
     StructType("p", OptionalType(StarExpr(Ident("int"))))}
ResultLists ==
    {<<a>> : a \in ResultTypeExprs} \cup {<<a, b>> : a \in ResultTypeExprs, b \in ResultTypeExprs}
Statements(results) ==
    {ReturnStmt(ExprList(<<Ident(IF TypeOf(results.Entangled) = TBool THEN "false" ELSE "err")>>, 1)),
     ReturnStmt(ExprList([i \in 1 .. Len(results.List) |-> Ident(ExprText[i])],
                         Len(results.List) + 1)),
     AssignStmt(ExprList(<<Ident("v"), Ident("err")>>, 2), ":=", ExprList(<<CallExpr(Ident("g"))>>, 0)),
     AssignStmt(ExprList(<<Ident("v"), Ident("w"), Ident("err")>>, 3), "=",
                ExprList(<<CallExpr(Ident("g"))>>, 0))}
    \cup {DeclStmt("x", t) : t \in ResultTypeExprs}
ConvertInit ==
    /\ OthersIdle
    /\ \E name \in {"F", "f"}, list \in ResultLists, tail \in {Ident("error"), Ident("bool")} :
          \E body \in Statements(FieldList(list, tail)) :
              fnIn = [fn |-> "convertAST", file |-> FuncDecl(name, FieldList(list, tail), body)]
    /\ fnOut = NoCall

\* The file is translated.
ConvertAST ==
    /\ fnIn.fn = "convertAST"
    /\ fnOut = NoCall
    /\ fnOut' = [first |-> convertAST(fnIn.file, render(fnIn.file)), second |-> NoCall]
    /\ UNCHANGED <<fnIn, lookupVars, retVars, flowVars>>

\* The translation is translated again.  The checker accepts it when no
\* nil was written for a value of a type without ?.
ConvertAgain ==
    /\ fnIn.fn = "convertAST"
    /\ fnOut # NoCall
    /\ fnOut.second = NoCall
    /\ fnOut.first.panic = NoPanic
    /\ Tok("nil") \notin Range(fnOut.first.dst)
    /\ Code(fnOut.first.dst) = Code(render(goFile(fnIn.file)))
    /\ fnOut' = [fnOut EXCEPT !.second = convertAST(goFile(fnIn.file), fnOut.first.dst)]
    /\ UNCHANGED <<fnIn, lookupVars, retVars, flowVars>>

ConvertNext == ConvertAST \/ ConvertAgain

SpecConvert == ConvertInit /\ [][ConvertNext]_vars

(***************************************************************************)
(* SpecUsable: variables of pointer type declared without a value, plain   *)
(* assignments to them and reads of them (part_003, assignVars and         *)
(* assignVar).                                                             *)
(***************************************************************************)
ErrUninit == "possibly uninitialized variable"

\* The operands of the right-hand sides: the address of a variable of
\* type int, a string, or a variable.
AddrOf == [e |-> "addr"]
StrLit == [e |-> "str"]
VarRef(name) == [e |-> "var", name |-> name]

\* check.rhsMultiExpr on an expression, with the objects os: the operand,
\* the diagnostics, and the variables read.
rhsMultiExpr(os, e) ==
    IF e.e = "addr" THEN [x |-> Operand("value", Pointer(TInt), NoVal), errs |-> {}, reads |-> <<>>]
    ELSE IF e.e = "str" THEN [x |-> Operand("value", TString, NoVal), errs |-> {}, reads |-> <<>>]
    ELSE IF LookupParent(e.name) = NoId
    THEN [x |-> Invalid, errs |-> {ErrUndeclared}, reads |-> <<>>]
    ELSE IF ~os[LookupParent(e.name)].usable
    THEN [x |-> Invalid, errs |-> {ErrUninit},
          reads |-> <<[id |-> LookupParent(e.name), result |-> "uninit"]>>]
    ELSE [x |-> Operand("variable", os[LookupParent(e.name)].typ, NoVal), errs |-> {},
          reads |-> <<[id |-> LookupParent(e.name), result |-> "ok"]>>]

\* assignVar: the variable the identifier denotes is made usable before
\* the assignment is checked, unless the operand is invalid.
madeUsable(os, lhs, x) ==
    IF x.mode = "invalid" \/ LookupParent(lhs) = NoId THEN os
    ELSE [os EXCEPT ![LookupParent(lhs)].usable = TRUE]

\* assignVars without \, the loop over the left-hand sides from i: the
\* i-th right-hand side is evaluated, then assigned.
RECURSIVE assignEach(_, _, _, _)
assignEach(lhs, rhs, i, st) ==
    IF i > Len(lhs) THEN st
    ELSE assignEach(lhs, rhs, i + 1,
            [objs  |-> madeUsable(st.objs, lhs[i], rhsMultiExpr(st.objs, rhs[i]).x),
             errs  |-> st.errs \cup rhsMultiExpr(st.objs, rhs[i]).errs
                               \cup assignVar(lhs[i], rhsMultiExpr(st.objs, rhs[i]).x),
             reads |-> st.reads \o rhsMultiExpr(st.objs, rhs[i]).reads])

\* check.useGetter: the right-hand sides are evaluated and nothing is
\* assigned.
RECURSIVE useGetter(_, _, _)
useGetter(rhs, i, st) ==
    IF i > Len(rhs) THEN st
    ELSE useGetter(rhs, i + 1,
            [st EXCEPT !.errs  = @ \cup rhsMultiExpr(st.objs, rhs[i]).errs,
                       !.reads = @ \o rhsMultiExpr(st.objs, rhs[i]).reads])

\* assignVars for a left-hand side without \.
assignEvery(lhs, rhs) ==
    IF Len(lhs) # Len(rhs)
    THEN useGetter(rhs, 1, [objs |-> objs, errs |-> {ErrAssignCount}, reads |-> <<>>])
    ELSE assignEach(lhs, rhs, 1, [objs |-> objs, errs |-> {}, reads |-> <<>>])

PointerVars == {"v", "w"}
AssignableLists == {<<a>> : a \in PointerVars} \cup {<<a, b>> : a \in PointerVars, b \in PointerVars}
RhsLists ==
    LET es == {AddrOf, StrLit} \cup {VarRef(n) : n \in PointerVars}
    IN  {<<a>> : a \in es} \cup {<<a, b>> : a \in es, b \in es}

\* var v *int: the variable is not usable.
DeclPtr ==
    \E nm \in PointerVars :
        /\ LookupParent(nm) = NoId
        /\ Declare(nm, Obj(nm, Pointer(TInt), FALSE, "no"))

\* v = &i, and the other forms.  A variable is bound by "assign" once a
\* statement that assigns it was accepted, and by "rejected" when the first
\* statement that assigns it was not.
Assigned(r, lhs) ==
    /\ objs' = r.objs
    /\ boundBy' = [k \in 1 .. Len(objs) |->
                      IF k \in {LookupParent(lhs[i]) : i \in 1 .. Len(lhs)}
                      THEN IF r.errs = {}
                           THEN [tail |-> NoId, how |-> "assign", errs |-> {}]
                           ELSE IF boundBy[k].how = "none"
                           THEN [tail |-> NoId, how |-> "rejected", errs |-> {}]
                           ELSE boundBy[k]
                      ELSE boundBy[k]]
    /\ last' = [stmt |-> "assign", errs |-> r.errs,
                reads |-> [i \in 1 .. Len(r.reads) |->
                              [id |-> r.reads[i].id, result |-> r.reads[i].result,
                               fresh |-> boundBy[r.reads[i].id].how = "none"]]]
    /\ probe' = NoProbe
    /\ UNCHANGED <<scopes, lookupVars, retVars, fnVars>>

Assign ==
    /\ Reachable
    /\ \E lhs \in AssignableLists, rhs \in RhsLists :
         /\ \A i \in 1 .. Len(lhs) : LookupParent(lhs[i]) # NoId
         /\ Assigned(assignEvery(lhs, rhs), lhs)

UsableNext == DeclPtr \/ Assign \/ Use

SpecUsable == FlowInit /\ [][UsableNext]_vars

(***************************************************************************)
(* SpecImport: the conversion of the declarations of an imported Go        *)
(* package (importer/convertast.go) under the annotations of the package   *)
(* (annotations/annotations.go).  A replace function is modelled by the    *)
(* slot it assigns: the conversion of a node yields what that slot holds   *)
(* afterwards.                                                             *)
(***************************************************************************)
SelectorExpr(x, sel) == [n |-> "SelectorExpr", X |-> x, Sel |-> sel]
Ellipsis(elt) == [n |-> "Ellipsis", Elt |-> elt]
MapType(key, value) == [n |-> "MapType", Key |-> key, Value |-> value]
ChanType(value) == [n |-> "ChanType", Value |-> value]
FuncType(params, results) == [n |-> "FuncType", Params |-> params, Results |-> results]
InterfaceType(methods) == [n |-> "InterfaceType", Methods |-> methods]
AstStructType(fields) == [n |-> "StructType", Fields |-> fields]
AstField(names, typ, doc) == [n |-> "Field", Names |-> names, Type |-> typ, Doc |-> doc]
ValueSpec(names, typ, doc) == [n |-> "ValueSpec", Names |-> names, Type |-> typ, Doc |-> doc]
TypeSpec(name, typ, doc) == [n |-> "TypeSpec", Name |-> name, Type |-> typ, Doc |-> doc]
GenDecl(specs, doc) == [n |-> "GenDecl", Specs |-> specs, Doc |-> doc]
AstFuncDecl(name, recv, typ, doc) ==
    [n |-> "FuncDecl", Name |-> name, Recv |-> recv, Type |-> typ, Doc |-> doc]
NoNode == [n |-> "none"]

\* A line of a comment group: its text after the comment marker and the
\* spaces, split at the prefix "For SGo: " when it has it.
DocLine(text) == [sgo |-> FALSE, s |-> text]
ForSGo(text) == [sgo |-> TRUE, s |-> text]

\* *Annotation: nil, or cursor, typ and anns; anns is a map or nil.
NilAnnotation == [nil |-> TRUE]
NilMap == [nil |-> TRUE]
Annotation(cursor, typ, anns) == [nil |-> FALSE, cursor |-> cursor, typ |-> typ, anns |-> anns]
NewAnnotation(anns) == IF anns = NilMap THEN NilAnnotation ELSE Annotation("", "", anns)

AnnType(a) ==
    IF a = NilAnnotation THEN [typ |-> "", ok |-> FALSE]
    ELSE IF a.typ = "" THEN [typ |-> "", ok |-> FALSE]
    ELSE [typ |-> a.typ, ok |-> TRUE]

AnnCursor(a, name) == IF a.cursor # "" THEN a.cursor \o "." \o name ELSE name

AnnLookup(a, name) ==
    IF a = NilAnnotation THEN NilAnnotation
    ELSE IF a.anns = NilMap THEN NilAnnotation
    ELSE IF AnnCursor(a, name) \in DOMAIN a.anns
    THEN Annotation("", a.anns[AnnCursor(a, name)], NilMap)
    ELSE Annotation(AnnCursor(a, name), "", a.anns)

\* The texts of the annotations, and parser.ParseExpr and
\* parser.ParseMethodExprs on them.
MalformedText == "*("
MethodText == "func (?*T) () *T"
ExprTexts == {"?*T", "*T", "func() *T"}
ParsedRecv(text) == [n |-> "Parsed", Text |-> text]

ParseExpr(text) ==
    IF text = "?*T" THEN [err |-> FALSE, e |-> OptionalType(StarExpr(Ident("T")))]
    ELSE IF text = "*T" THEN [err |-> FALSE, e |-> StarExpr(Ident("T"))]
    ELSE IF text = "func() *T"
    THEN [err |-> FALSE, e |-> FuncType(<<>>, <<AstField(<<>>, StarExpr(Ident("T")), <<>>)>>)]
    ELSE [err |-> TRUE, e |-> NoNode]

ParseMethodExprs(text) ==
    IF text = MethodText
    THEN [err |-> FALSE, fun |-> ParseExpr("func() *T").e, recv |-> ParsedRecv(text)]
    ELSE [err |-> TRUE, fun |-> NoNode, recv |-> NoNode]

\* info.Uses: the type a type name denotes, by its underlying type.
Uses(name) ==
    IF name = "M" THEN Map(TString, TInt)
    ELSE IF name = "error" THEN Interface(<<>>)
    ELSE IF name = "T" THEN Struct(<<>>)
    ELSE Basic(name)
\* The same for a type of another package.
Qualified(x, sel) ==
    IF <<x, sel>> = <<"io", "Reader">> THEN Interface(<<>>)
    ELSE IF <<x, sel>> = <<"url", "Values">> THEN Map(TString, Slice(TString))
    ELSE Struct(<<>>)

RECURSIVE firstForSGo(_, _)
firstForSGo(list, i) ==
    IF i > Len(list) THEN [s |-> "", ok |-> FALSE]
    ELSE IF list[i].sgo THEN [s |-> list[i].s, ok |-> TRUE]
    ELSE firstForSGo(list, i + 1)

annFromDoc(node) ==
    IF "Doc" \notin DOMAIN node THEN [s |-> "", ok |-> FALSE]
    ELSE firstForSGo(node.Doc, 1)

NotReplaced == [replaced |-> FALSE, e |-> NoNode]

maybeReplace(node, ann, replace) ==
    IF ~replace THEN NotReplaced
    ELSE IF AnnType(ann).ok /\ ~ParseExpr(AnnType(ann).typ).err
    THEN [replaced |-> TRUE, e |-> ParseExpr(AnnType(ann).typ).e]
    ELSE IF ~annFromDoc(node).ok THEN NotReplaced
    ELSE IF ParseExpr(annFromDoc(node).s).err THEN NotReplaced
    ELSE [replaced |-> TRUE, e |-> ParseExpr(annFromDoc(node).s).e]

maybeReplaceFuncDecl(node, ann) ==
    IF AnnType(ann).ok /\ ~ParseMethodExprs(AnnType(ann).typ).err
    THEN [replaced |-> TRUE, r |-> ParseMethodExprs(AnnType(ann).typ)]
    ELSE IF ~annFromDoc(node).ok THEN [replaced |-> FALSE, r |-> ParseMethodExprs("")]
    ELSE IF ParseMethodExprs(annFromDoc(node).s).err THEN [replaced |-> FALSE, r |-> ParseMethodExprs("")]
    ELSE [replaced |-> TRUE, r |-> ParseMethodExprs(annFromDoc(node).s)]

\* What the replace function given with a node assigns e to.
replaced(node, e) ==
    IF node.n \in {"ValueSpec", "TypeSpec"} THEN [node EXCEPT !.Type = e]
    ELSE IF node.n = "GenDecl" THEN [node EXCEPT !.Specs[1].Type = e]
    ELSE IF node.n = "FuncDecl" THEN (IF e.n = "FuncType" THEN [node EXCEPT !.Type = e] ELSE node)
    ELSE e

optionalByDefault(node, replace) == IF replace THEN OptionalType(node) ELSE node

\* The name a method of an interface is looked up by.
methodName(f) ==
    IF Len(f.Names) > 0 THEN f.Names[1]
    ELSE IF f.Type.n = "Ident" THEN f.Type.Name
    ELSE IF f.Type.n = "StarExpr" /\ f.Type.X.n = "Ident" THEN f.Type.X.Name
    ELSE ""

fieldAnn(f, ann) == IF Len(f.Names) = 1 THEN AnnLookup(ann, f.Names[1]) ELSE NilAnnotation

specName(s) == IF s.n = "ValueSpec" THEN s.Names[1] ELSE s.Name

\* The name a function declaration is looked up by in File.
declName(d) ==
    IF d.Recv = NoNode THEN d.Name
    ELSE IF d.Recv.Type.n = "StarExpr"
    THEN (IF d.Recv.Type.X.n = "Ident" THEN "(*" \o d.Recv.Type.X.Name \o ")." \o d.Name ELSE d.Name)
    ELSE IF d.Recv.Type.n = "Ident" THEN d.Recv.Type.Name \o "." \o d.Name
    ELSE d.Name

RECURSIVE importerConvertAST(_, _, _)
RECURSIVE convertMethods(_, _, _)
RECURSIVE convertCases(_, _, _)

\* InterfaceType: the loop over the methods from i; it ends at the first
\* method an annotation replaces.
convertMethods(list, i, ann) ==
    IF i > Len(list) THEN list
    ELSE IF maybeReplace(list[i].Type, AnnLookup(ann, methodName(list[i])), TRUE).replaced
    THEN [list EXCEPT ![i].Type =
             maybeReplace(list[i].Type, AnnLookup(ann, methodName(list[i])), TRUE).e]
    ELSE convertMethods(
             [list EXCEPT ![i].Type =
                 importerConvertAST(list[i].Type, AnnLookup(ann, methodName(list[i])), FALSE)],
             i + 1, ann)

\* FuncDecl, after the receiver: the type of the function.
convertFuncType(d, ann) ==
    IF maybeReplace(d.Type, ann, TRUE).replaced
    THEN [d EXCEPT !.Type = maybeReplace(d.Type, ann, TRUE).e]
    ELSE [d EXCEPT !.Type = importerConvertAST(d.Type, NilAnnotation, FALSE)]

\* FuncDecl with a receiver that no annotation replaces.
convertRecv(d) ==
    IF d.Recv.Type.n = "StarExpr" THEN [d EXCEPT !.Recv.Type = OptionalType(d.Recv.Type)]
    ELSE IF d.Recv.Type.n = "Ident"
    THEN [d EXCEPT !.Recv.Type = importerConvertAST(d.Recv.Type, NilAnnotation, TRUE)]
    ELSE d

\* The switch of convertAST on the type of the node.
convertCases(node, ann, replace) ==
    IF node.n = "Field"
    THEN IF maybeReplace(node, fieldAnn(node, ann), TRUE).replaced
         THEN [node EXCEPT !.Type = maybeReplace(node, fieldAnn(node, ann), TRUE).e]
         ELSE [node EXCEPT !.Type = importerConvertAST(node.Type, fieldAnn(node, ann), TRUE)]
    ELSE IF node.n = "StarExpr"
    THEN optionalByDefault([node EXCEPT !.X = importerConvertAST(node.X, ann, TRUE)], replace)
    ELSE IF node.n = "Ident"
    THEN (IF replace /\ IsOptionable(Uses(node.Name)) THEN OptionalType(node) ELSE node)
    ELSE IF node.n = "ArrayType"
    THEN [node EXCEPT !.Elt = importerConvertAST(node.Elt, ann, TRUE)]
    ELSE IF node.n = "StructType"
    THEN [node EXCEPT !.Fields =
             [i \in 1 .. Len(node.Fields) |-> importerConvertAST(node.Fields[i], ann, FALSE)]]
    ELSE IF node.n = "FuncType"
    THEN optionalByDefault(
             [node EXCEPT
                !.Params = [i \in 1 .. Len(node.Params) |->
                               importerConvertAST(node.Params[i], ann, FALSE)],
                !.Results = [i \in 1 .. Len(node.Results) |->
                               importerConvertAST(node.Results[i], ann, FALSE)]],
             replace)
    ELSE IF node.n = "InterfaceType"
    THEN optionalByDefault([node EXCEPT !.Methods = convertMethods(node.Methods, 1, ann)], replace)
    ELSE IF node.n = "MapType"
    THEN optionalByDefault(
             [node EXCEPT !.Key = importerConvertAST(node.Key, ann, TRUE),
                          !.Value = importerConvertAST(node.Value, ann, TRUE)],
             replace)
    ELSE IF node.n = "ChanType"
    THEN optionalByDefault([node EXCEPT !.Value = importerConvertAST(node.Value, ann, TRUE)], replace)
    ELSE IF node.n = "ValueSpec"
    THEN (IF node.Type # NoNode
          THEN [node EXCEPT !.Type = importerConvertAST(node.Type, NilAnnotation, TRUE)]
          ELSE node)
    ELSE IF node.n = "TypeSpec"
    THEN [node EXCEPT !.Type = importerConvertAST(node.Type, ann, FALSE)]
    ELSE IF node.n = "GenDecl"
    THEN [node EXCEPT !.Specs =
             [i \in 1 .. Len(node.Specs) |->
                 IF Len(node.Specs) = 1
                 THEN IF ~replace
                      THEN importerConvertAST(node, AnnLookup(ann, specName(node.Specs[i])), TRUE).Specs[i]
                      ELSE importerConvertAST(node.Specs[i], ann, TRUE)
                 ELSE importerConvertAST(node.Specs[i], AnnLookup(ann, specName(node.Specs[i])), TRUE)]]
    ELSE IF node.n = "FuncDecl"
    THEN IF node.Recv = NoNode THEN convertFuncType(node, ann)
         ELSE IF maybeReplaceFuncDecl(node, ann).replaced
         THEN [node EXCEPT !.Type = maybeReplaceFuncDecl(node, ann).r.fun,
                           !.Recv.Type = maybeReplaceFuncDecl(node, ann).r.recv]
         ELSE convertFuncType(convertRecv(node), ann)
    ELSE node

importerConvertAST(node, ann, replace) ==
    IF maybeReplace(node, ann, replace).replaced
    THEN replaced(node, maybeReplace(node, ann, replace).e)
    ELSE convertCases(node, ann, replace)

\* File: a declaration of the file.
convertDecl(d, ann) ==
    IF d.n = "GenDecl" THEN importerConvertAST(d, ann, FALSE)
    ELSE importerConvertAST(d, AnnLookup(ann, declName(d)), TRUE)

\* ConvertAST has no result and reports nothing: the converted declaration,
\* and the diagnostics, of which there are none.
ImportedDecl(d, anns) == [kind |-> "converted", decl |-> convertDecl(d, NewAnnotation(anns)), diags |-> {}]

\* The declarations converted.
ImportedTypes ==
    LET named == {Ident("int"), Ident("T"), Ident("M"), Ident("error"),
                  SelectorExpr("io", "Reader"), SelectorExpr("time", "Time")}
    IN  named
        \cup {StarExpr(t) : t \in named} \cup {ArrayType(t) : t \in named}
        \cup {MapType(Ident("string"), t) : t \in named} \cup {ChanType(t) : t \in named}
        \cup {InterfaceType(<<>>), FuncType(<<>>, <<>>), StarExpr(StarExpr(Ident("int")))}
Docs == {<<>>, <<DocLine("F does."), ForSGo("?*T")>>, <<ForSGo(MalformedText)>>}
ImportedDecls ==
    {AstFuncDecl("F", NoNode, FuncType(<<AstField(<<"a">>, t, <<>>)>>, <<>>), doc) :
        t \in ImportedTypes \cup {Ellipsis(u) : u \in ImportedTypes}, doc \in {<<>>}}
    \cup {AstFuncDecl("F", NoNode, FuncType(<<>>, <<AstField(<<>>, t, <<>>)>>), doc) :
        t \in {StarExpr(Ident("T")), Ident("int")}, doc \in Docs}
    \cup {AstFuncDecl("F", AstField(<<"r">>, r, <<>>), FuncType(<<>>, <<AstField(<<>>, Ident("error"), <<>>)>>), doc) :
        r \in {StarExpr(Ident("T")), Ident("T"), Ident("M")}, doc \in Docs}
    \cup {GenDecl(<<ValueSpec(<<"V">>, t, <<>>)>>, doc) :
        t \in {StarExpr(Ident("T")), SelectorExpr("io", "Reader"), NoNode}, doc \in Docs}
    \cup {GenDecl(<<ValueSpec(<<"V">>, StarExpr(Ident("T")), doc), ValueSpec(<<"W">>, Ident("M"), <<>>)>>, <<>>) :
        doc \in Docs}
    \cup {GenDecl(<<TypeSpec("S", AstStructType(<<AstField(<<"f">>, t, doc), AstField(<<>>, StarExpr(Ident("T")), <<>>)>>), <<>>)>>, <<>>) :
        t \in {StarExpr(Ident("T")), SelectorExpr("url", "Values"), ArrayType(StarExpr(Ident("T")))}, doc \in Docs}
    \cup {GenDecl(<<TypeSpec("I", InterfaceType(<<AstField(<<"m">>, FuncType(<<>>, <<AstField(<<>>, t, <<>>)>>), <<>>),
                                                   AstField(<<"k">>, FuncType(<<AstField(<<"a">>, u, <<>>)>>, <<>>), <<>>)>>), <<>>)>>, <<>>) :
        t \in {StarExpr(Ident("T")), Ident("error")}, u \in {StarExpr(Ident("T")), Ellipsis(InterfaceType(<<>>))}}
    \cup {GenDecl(<<TypeSpec("P", t, <<>>)>>, <<>>) : t \in {StarExpr(Ident("T")), FuncType(<<>>, <<>>)}}

\* The annotations of the package: none, or one for a name.
AnnotatedNames == {"F", "(*T).F", "T.F", "V", "S.f", "I.m", "P"}
AnnotationMaps ==
    {NilMap}
    \cup {[k \in {name} |-> text] : name \in AnnotatedNames,
                                      text \in {"?*T", "func() *T", MalformedText, MethodText}}

ImportInit ==
    /\ OthersIdle
    /\ fnIn \in [fn : {"ConvertAST"}, decl : ImportedDecls, anns : AnnotationMaps]
    /\ fnOut = NoCall

ConvertImported ==
    /\ fnIn.fn = "ConvertAST"
    /\ fnOut = NoCall
    /\ fnOut' = ImportedDecl(fnIn.decl, fnIn.anns)
    /\ UNCHANGED <<fnIn, lookupVars, retVars, flowVars>>

ImportNext == ConvertImported

SpecImport == ImportInit /\ [][ImportNext]_vars

(***************************************************************************)
(* SpecParse: the parser of annotation files (annotations/parse.go).  A   *)
(* source is a sequence of characters, all of them valid UTF-8; the        *)
(* tokenizer is the position of its next character.                        *)
(***************************************************************************)
IsLetter(c) == c \in {"a", "b", "c", "h", "n", "T"}
IsDigit(c) == c \in {"1"}
IsSpace(c) == c \in {" ", "\t", "\n"}

ErrNil == "nil"
ErrIoEOF == "io.EOF"
ErrEOF == "unexpected end of file"
ErrUnexpectedToken == "unexpected token"

\* The string of a sequence of characters.
RECURSIVE Text(_)
Text(cs) == IF cs = <<>> THEN "" ELSE Head(cs) \o Text(Tail(cs))

RECURSIVE TrimLeft(_)
TrimLeft(cs) == IF cs # <<>> /\ IsSpace(Head(cs)) THEN TrimLeft(Tail(cs)) ELSE cs
RECURSIVE TrimRight(_)
TrimRight(cs) ==
    IF cs # <<>> /\ IsSpace(cs[Len(cs)]) THEN TrimRight(SubSeq(cs, 1, Len(cs) - 1)) ELSE cs
TrimSpace(cs) == Text(TrimRight(TrimLeft(cs)))

\* The result of a parsing function: the error, the position of the
\* tokenizer and the value.
Parsed(p, v) == [err |-> ErrNil, p |-> p, v |-> v]
Failed(err, p) == [err |-> err, p |-> p, v |-> {}]

RECURSIVE SkipWhite(_, _)
SkipWhite(src, p) ==
    IF p > Len(src) THEN p
    ELSE IF ~IsSpace(src[p]) THEN p
    ELSE SkipWhite(src, p + 1)

RECURSIVE SkipWhiteUntilLine(_, _)
SkipWhiteUntilLine(src, p) ==
    IF p > Len(src) THEN p
    ELSE IF src[p] = "\n" \/ ~IsSpace(src[p]) THEN p
    ELSE SkipWhiteUntilLine(src, p + 1)

expect(r, src, p) ==
    IF p > Len(src) THEN Failed(ErrIoEOF, p)
    ELSE IF src[p] # r THEN Failed(ErrUnexpectedToken, p + 1)
    ELSE Parsed(p + 1, {})

\* parseIdent, the loop after the first character.
RECURSIVE identLoop(_, _, _)
identLoop(src, p, id) ==
    IF p > Len(src) THEN Failed(ErrIoEOF, p)
    ELSE IF ~IsLetter(src[p]) /\ ~IsDigit(src[p]) THEN Parsed(p, id)
    ELSE identLoop(src, p + 1, id \o src[p])

parseIdent(src, p) ==
    IF p > Len(src) THEN Failed(ErrIoEOF, p) ELSE identLoop(src, p + 1, src[p])

\* parseReceiver after the identifier id.
receiverClose(id, closed) ==
    IF closed.err # ErrNil THEN closed ELSE Parsed(closed.p, "(*" \o id \o ")")
receiverIdent(src, id) ==
    IF id.err # ErrNil THEN id ELSE receiverClose(id.v, expect(")", src, SkipWhite(src, id.p)))
receiverStar(src, star) ==
    IF star.err # ErrNil THEN star ELSE receiverIdent(src, parseIdent(src, SkipWhite(src, star.p)))
parseReceiver(src, p) == receiverStar(src, expect("*", src, SkipWhite(src, p + 1)))

parseName(src, p) ==
    IF p > Len(src) THEN Failed(ErrIoEOF, p)
    ELSE IF src[p] = "(" THEN parseReceiver(src, p)
    ELSE IF src[p] = "_" \/ IsLetter(src[p]) THEN parseIdent(src, p)
    ELSE Failed(ErrUnexpectedToken, p)

\* parseType, the loop after the first character.
RECURSIVE typeLoop(_, _, _)
typeLoop(src, p, typ) ==
    IF p > Len(src) THEN Parsed(p, TrimSpace(typ))
    ELSE IF src[p] \in {"\n", ";"} THEN Parsed(p, TrimSpace(typ))
    ELSE typeLoop(src, p + 1, Append(typ, src[p]))

parseType(src, p) ==
    IF p > Len(src) THEN Failed(ErrIoEOF, p)
    ELSE IF src[p] \in {"{", "\n", ";"} THEN Failed(ErrUnexpectedToken, p + 1)
    ELSE typeLoop(src, p + 1, <<src[p]>>)

\* A map is the set of its entries <<key, value>>; anns[k] = v for every
\* entry of more.
Merged(anns, more) == {e \in anns : \A m \in more : m[1] # e[1]} \cup more

RECURSIVE parseList(_, _, _)
RECURSIVE parseItem(_, _)
RECURSIVE parseDef(_, _)

\* parseDef after the list in braces.
defClose(list, closed) == IF closed.err # ErrNil THEN closed ELSE Parsed(closed.p, list.v)
defList(src, list) ==
    IF list.err # ErrNil THEN list ELSE defClose(list, expect("}", src, SkipWhite(src, list.p)))
defType(typ) == IF typ.err # ErrNil THEN typ ELSE Parsed(typ.p, {<<"", typ.v>>})

parseDef(src, p) ==
    IF p > Len(src) THEN Failed(ErrIoEOF, p)
    ELSE IF src[p] = "{" THEN defList(src, parseList(src, SkipWhite(src, p + 1), {}))
    ELSE defType(parseType(src, p))

\* parseItem after the definition, the tokenizer at p.
itemEnd(src, name, def, p) ==
    IF p <= Len(src) /\ src[p] \notin {";", "\n"} THEN Failed(ErrUnexpectedToken, p + 1)
    ELSE Parsed(IF p <= Len(src) THEN p + 1 ELSE p,
                {<<IF e[1] # "" THEN name \o "." \o e[1] ELSE name, e[2]>> : e \in def.v})
itemDef(src, name, def) ==
    IF def.err # ErrNil THEN def ELSE itemEnd(src, name, def, SkipWhiteUntilLine(src, def.p))
itemName(src, name) ==
    IF name.err # ErrNil THEN name
    ELSE itemDef(src, name.v, parseDef(src, SkipWhiteUntilLine(src, name.p)))

parseItem(src, p) == itemName(src, parseName(src, p))

\* parseList after an item.
listItem(src, anns, item) ==
    IF item.err = ErrIoEOF THEN Failed(ErrEOF, item.p)
    ELSE IF item.err # ErrNil THEN item
    ELSE parseList(src, item.p, Merged(anns, item.v))
\* parseList after SkipWhite, the tokenizer at p.
listPeek(src, p, anns) ==
    IF p > Len(src) THEN Parsed(p, anns)
    ELSE IF src[p] # "(" /\ src[p] # "_" /\ ~IsLetter(src[p]) THEN Parsed(p, anns)
    ELSE listItem(src, anns, parseItem(src, p))

parseList(src, p, anns) == listPeek(src, SkipWhite(src, p), anns)

Parse(src) == [kind |-> "parsed", err |-> parseList(src, 1, {}).err, anns |-> parseList(src, 1, {}).v]

\* An annotation file: items of a name and a type or a list of items, and
\* the text of it, with pad inside the parentheses and the braces and sep
\* after every item.
Leaf(recv, id, typ) == [recv |-> recv, id |-> id, leaf |-> TRUE, typ |-> typ, list |-> <<>>]
Group(recv, id, list) == [recv |-> recv, id |-> id, leaf |-> FALSE, typ |-> <<>>, list |-> list]

NameText(item, pad) ==
    IF item.recv THEN <<"(">> \o pad \o <<"*">> \o pad \o item.id \o pad \o <<")">> ELSE item.id

RECURSIVE Written(_, _, _)
Written(items, pad, sep) ==
    IF items = <<>> THEN <<>>
    ELSE NameText(Head(items), pad) \o <<" ">> \o pad
         \o (IF Head(items).leaf THEN Head(items).typ \o pad
             ELSE <<"{">> \o pad \o Written(Head(items).list, pad, sep) \o <<"}">>)
         \o sep \o Written(Tail(items), pad, sep)

\* The name of an item as the map has it.
ItemName(item) == IF item.recv THEN "(*" \o Text(item.id) \o ")" ELSE Text(item.id)

\* The entries of the items: one for every leaf, under the names of the
\* items around it joined with '.'.
RECURSIVE Leaves(_, _)
Leaves(items, prefix) ==
    UNION {IF items[i].leaf
           THEN {<<prefix \o ItemName(items[i]), TrimSpace(items[i].typ)>>}
           ELSE Leaves(items[i].list, prefix \o ItemName(items[i]) \o ".") : i \in 1 .. Len(items)}

RECURSIVE LeafCount(_)
LeafCount(items) ==
    IF items = <<>> THEN 0
    ELSE (IF Head(items).leaf THEN 1 ELSE LeafCount(Head(items).list)) + LeafCount(Tail(items))

Idents == {<<"a">>, <<"b", "1">>, <<"a", "_", "b">>, <<"_", "a">>}
TypeTexts == {<<"T">>, <<"c", "h", "a", "n", " ", "T">>}
Pads == {<<>>, <<" ">>, <<" ", "\t">>}
Separators == {<<"\n">>, <<";">>, <<";", ";">>, <<";", "\n">>, <<" ", "\n", "\n">>}
LeafItems == {Leaf(FALSE, id, typ) : id \in Idents, typ \in TypeTexts}
LeafLists ==
    {<<a>> : a \in LeafItems} \cup {<<Leaf(FALSE, <<"a">>, t), Leaf(FALSE, <<"b", "1">>, t)>> : t \in TypeTexts}
Items ==
    LeafItems \cup {Group(TRUE, <<"T">>, list) : list \in LeafLists}
              \cup {Group(FALSE, <<"c">>, list) : list \in LeafLists}
AnnotationFiles ==
    {<<a>> : a \in Items} \cup {<<a, b>> : a \in LeafItems \cup {Group(TRUE, <<"T">>, <<Leaf(FALSE, <<"a">>, <<"T">>)>>)},
                                          b \in {Group(FALSE, <<"c">>, list) : list \in LeafLists} \cup {Leaf(FALSE, <<"h">>, <<"T">>)}}

ParseInit ==
    /\ OthersIdle
    /\ fnIn \in [fn : {"Parse"}, items : AnnotationFiles, pad : Pads, sep : Separators]
    /\ fnOut = NoCall

ParseAnnotations ==
    /\ fnIn.fn = "Parse"
    /\ fnOut = NoCall
    /\ fnOut' = Parse(Written(fnIn.items, fnIn.pad, fnIn.sep))
    /\ UNCHANGED <<fnIn, lookupVars, retVars, flowVars>>

ParseNext == ParseAnnotations

SpecParse == ParseInit /\ [][ParseNext]_vars

(***************************************************************************)
(* SpecTokenizer: the Tokenizer of annotation files (annotations/parse.go) *)
(* under Peek and Next, on a source of bytes.  fnOut holds the tokenizer,  *)
(* the result of the last call and of the call before it, and the tokens   *)
(* the successful calls of Next returned.                                  *)
(***************************************************************************)
MaxSrc == 4

\* The bytes of the sources: 't', '\n', the two bytes of a rune of two
\* bytes, and a byte that starts no rune.
SrcBytes == {116, 10, 195, 177, 153}
RuneError == 65533

\* utf8.DecodeRuneInString on the bytes from position i (from 0).
DecodeRuneInString(src, i) ==
    IF i >= Len(src) THEN [r |-> RuneError, size |-> 0]
    ELSE IF src[i + 1] < 128 THEN [r |-> src[i + 1], size |-> 1]
    ELSE IF src[i + 1] \in 194 .. 223 /\ i + 1 < Len(src) /\ src[i + 2] \in 128 .. 191
    THEN [r |-> (src[i + 1] - 192) * 64 + (src[i + 2] - 128), size |-> 2]
    ELSE [r |-> RuneError, size |-> 1]

NoToken == [Lexeme |-> 0, Line |-> 0, Col |-> 0, Size |-> 0, BytePos |-> 0, RunePos |-> 0]
NoError == [kind |-> "nil"]
IoEOF == [kind |-> "io.EOF"]
NewUTF8Error(line, c) == [kind |-> "UTF8Error", Line |-> line, Col |-> c]

NewTokenizer ==
    [bytePos |-> 0, runePos |-> 0, lastLinePos |-> 0, line |-> 1, lookahead |-> NoToken]

col(t) == t.runePos - t.lastLinePos + 1

\* Peek and Next: the tokenizer after the call, the token and the error.
Peek(src, t) ==
    IF t.lookahead.Size > 0 THEN [t |-> t, tk |-> t.lookahead, err |-> NoError]
    ELSE IF t.bytePos >= Len(src) THEN [t |-> t, tk |-> NoToken, err |-> IoEOF]
    ELSE IF DecodeRuneInString(src, t.bytePos).r = RuneError
    THEN [t |-> t, tk |-> NoToken, err |-> NewUTF8Error(t.line, col(t))]
    ELSE [t |-> [t EXCEPT !.lookahead =
                    [Lexeme |-> DecodeRuneInString(src, t.bytePos).r,
                     Size |-> DecodeRuneInString(src, t.bytePos).size,
                     BytePos |-> t.bytePos, RunePos |-> t.runePos,
                     Line |-> t.line, Col |-> col(t)]],
          tk |-> [Lexeme |-> DecodeRuneInString(src, t.bytePos).r,
                  Size |-> DecodeRuneInString(src, t.bytePos).size,
                  BytePos |-> t.bytePos, RunePos |-> t.runePos,
                  Line |-> t.line, Col |-> col(t)],
          err |-> NoError]

\* advance with the start of the line left where it was.
advanceSameLineStart(peeked) ==
    IF peeked.err # NoError THEN [peeked EXCEPT !.tk = NoToken]
    ELSE [peeked EXCEPT
            !.t = [bytePos |-> peeked.t.bytePos + peeked.tk.Size,
                   runePos |-> peeked.t.runePos + 1,
                   lastLinePos |-> peeked.t.lastLinePos,
                   line |-> IF peeked.tk.Lexeme = 10 THEN peeked.t.line + 1 ELSE peeked.t.line,
                   lookahead |-> NoToken]]

\* Next after its call of Peek returned peeked.
advance(peeked) ==
    IF peeked.err # NoError THEN [peeked EXCEPT !.tk = NoToken]
    ELSE [peeked EXCEPT
            !.t = [bytePos |-> peeked.t.bytePos + peeked.tk.Size,
                   runePos |-> peeked.t.runePos + 1,
                   lastLinePos |-> IF peeked.tk.Lexeme = 10 THEN peeked.t.runePos + 1
                                   ELSE peeked.t.lastLinePos,
                   line |-> IF peeked.tk.Lexeme = 10 THEN peeked.t.line + 1 ELSE peeked.t.line,
                   lookahead |-> NoToken]]

Next(src, t) == advance(Peek(src, t))

RECURSIVE Sources(_)
Sources(n) ==
    IF n = 0 THEN {<<>>} ELSE Sources(n - 1) \cup {Append(s, b) : s \in Sources(n - 1), b \in SrcBytes}

TokenizerInit ==
    /\ OthersIdle
    /\ fnIn \in [fn : {"Tokenizer"}, src : Sources(MaxSrc)]
    /\ fnOut = [kind |-> "Tokenizer", t |-> NewTokenizer, op |-> "new", tk |-> NoToken,
                err |-> NoError, before |-> NoError, returned |-> <<>>]

\* A call: the result is kept, and the error of the call before it.
Called(op, r) ==
    /\ fnOut' = [kind |-> "Tokenizer", t |-> r.t, op |-> op, tk |-> r.tk, err |-> r.err,
                 before |-> fnOut.err,
                 returned |-> IF op = "Next" /\ r.err = NoError
                              THEN Append(fnOut.returned, r.tk) ELSE fnOut.returned]
    /\ UNCHANGED <<fnIn, lookupVars, retVars, flowVars>>

TokenizerPeek ==
    /\ fnIn.fn = "Tokenizer"
    /\ Called("Peek", Peek(fnIn.src, fnOut.t))

TokenizerNext ==
    /\ fnIn.fn = "Tokenizer"
    /\ Called("Next", Next(fnIn.src, fnOut.t))

TokenizerNextStep == TokenizerPeek \/ TokenizerNext

SpecTokenizer == TokenizerInit /\ [][TokenizerNextStep]_vars

(***************************************************************************)
(* SpecTarget: entangled assignments whose targets are identifiers, field  *)
(* selectors or index expressions (part_003, assignVars).                  *)
(***************************************************************************)
ErrNonIdent == "cannot entangle non-identifier"

IndexExpr(x) == [n |-> "IndexExpr", X |-> x]

\* var w struct{ y string; ok bool; a [2]string }
RecordType == Struct(<<Field("y", TString, FALSE), Field("ok", TBool, FALSE),
                       Field("a", Array(TString), FALSE)>>)

\* The statements: targets before and after \, assigned from m[k].
TargetForm(target, tail) == [lhs |-> <<target>>, tail |-> tail, rhs |-> ExprList(<<MapIndex>>, 0)]
TargetForms ==
    {TargetForm(Ident("v"), Ident("t")),
     TargetForm(SelectorExpr("w", "y"), Ident("t")),
     TargetForm(IndexExpr(SelectorExpr("w", "a")), Ident("t")),
     TargetForm(Ident("v"), SelectorExpr("w", "ok"))}

targets(form) == form.lhs \o <<form.tail>>

\* The variable a target names.
RECURSIVE varOf(_)
varOf(e) == IF e.n = "Ident" THEN e.Name ELSE IF e.n = "SelectorExpr" THEN e.X ELSE varOf(e.X)

\* check.expr on a target that is not an identifier: its type.
RECURSIVE targetType(_)
targetType(e) ==
    IF e.n = "SelectorExpr"
    THEN (CHOOSE f \in Range(RecordType.fields) : f.name = e.Sel).typ
    ELSE targetType(e.X).elem

\* The targets before \ that are not identifiers.
nonIdentBefore(form) == {i \in 1 .. Len(form.lhs) : form.lhs[i].n # "Ident"}

\* assignVars, the loop that collects the variables: the targets that are
\* not identifiers, the one after \ among them.
nonIdent(form) == {i \in 1 .. Len(targets(form)) : targets(form)[i].n # "Ident"}

\* assignVar on a target: the diagnostics.
assignTarget(e, x) ==
    IF e.n = "Ident" THEN assignVar(e.Name, x)
    ELSE IF x.mode = "invalid" THEN {}
    ELSE IF LookupParent(varOf(e)) = NoId THEN {ErrUndeclared}
    ELSE assignment(x, targetType(e))

\* assignVars after the diagnostic: the statement is checked as an
\* assignment without \.
assignPlain(form, u) ==
    IF Len(targets(form)) # u.r
    THEN [objs |-> objs, errs |-> {ErrNonIdent, ErrAssignCount}, lhsIds |-> <<>>, tailId |-> NoId]
    ELSE [objs |-> [k \in 1 .. Len(objs) |->
                      IF \E i \in 1 .. Len(targets(form)) :
                            /\ targets(form)[i].n = "Ident"
                            /\ LookupParent(targets(form)[i].Name) = k
                            /\ get(form.rhs, u, i - 1).mode # "invalid"
                      THEN [objs[k] EXCEPT !.usable = TRUE] ELSE objs[k]],
          errs |-> {ErrNonIdent} \cup
                   UNION {assignTarget(targets(form)[i], get(form.rhs, u, i - 1)) :
                             i \in 1 .. Len(targets(form))},
          lhsIds |-> <<>>, tailId |-> NoId]

\* assignVars on a statement with \.
assignTargets(form) ==
    IF nonIdent(form) # {}
    THEN assignPlain(form, unpack(form.rhs, Len(targets(form)) = 2))
    ELSE assignVars(Form(<<varOf(form.lhs[1])>>, varOf(form.tail), form.rhs.List[1]))

\* var w struct{ ... }
DeclRecord == Declare("w", Obj("w", RecordType, TRUE, "no"))

\* target \ tail = m[k], the variables declared.
AssignTarget ==
    /\ Reachable
    /\ \E form \in TargetForms :
         /\ \A i \in 1 .. Len(targets(form)) :
               /\ LookupParent(varOf(targets(form)[i])) # NoId
               /\ ~involved(LookupParent(varOf(targets(form)[i])))
         /\ objs' = assignTargets(form).objs
         /\ boundBy' = bind(Len(objs), assignTargets(form).lhsIds, assignTargets(form).tailId,
                            "assign", assignTargets(form).errs)
         /\ last' = [stmt |-> "assignTargets", errs |-> assignTargets(form).errs, form |-> form]
    /\ probe' = NoProbe
    /\ UNCHANGED <<scopes, lookupVars, retVars, fnVars>>

TargetNext == DeclVal \/ DeclRecord \/ AssignTarget \/ Use

SpecTarget == FlowInit /\ [][TargetNext]_vars

(***************************************************************************)
(* SpecSwitch: the translation of a type switch (codegen.go,               *)
(* convertTypeSwitchStmt) and what the emitted statement does when it runs *)
(* on the value the switched expression holds.                             *)
(***************************************************************************)
MaxClauses == 3

\* The switched expression as written, and the variable that holds it.
SwitchedExpr == "x"
SgoSwitched == "__sgo_switched"

\* A case clause by the types it lists; default lists none.
CaseClause(list) == [List |-> list]
DefaultClause == CaseClause(<<>>)

\* convertTypeSwitchStmt, the first loop: the listed types with checkable
\* paths.
optClauses(clauses) ==
    {n \in UNION {Range(clauses[i].List) : i \in 1 .. Len(clauses)} :
        Len(FindOptionables(n).checkable) > 0}

\* The assertion emitted for one listed type.
clauseAssert(n) ==
    [T |-> n, x |-> SgoSwitched, code |-> typeAssertOptionables(TRUE, FindOptionables(n).checkable)]

\* The condition of the if emitted for one clause.
clauseCond(clause) ==
    IF Len(clause.List) = 0 THEN [form |-> "true", asserts |-> <<>>]
    ELSE IF Len(clause.List) > 1
    THEN [form |-> "||", asserts |-> [i \in 1 .. Len(clause.List) |-> clauseAssert(clause.List[i])]]
    ELSE [form |-> "__sgo_ok", asserts |-> <<clauseAssert(clause.List[1])>>]

\* convertTypeSwitchStmt: the switch is copied, or the switched expression
\* is assigned to a variable and the clauses become a chain of ifs.
convertTypeSwitchStmt(clauses) ==
    IF optClauses(clauses) = {}
    THEN [rewritten |-> FALSE, switched |-> <<>>, chain |-> <<>>, clauses |-> clauses]
    ELSE [rewritten |-> TRUE, switched |-> <<SwitchedExpr>>,
          chain |-> [i \in 1 .. Len(clauses) |-> clauseCond(clauses[i])], clauses |-> clauses]

\* What a run did: the number of the clause whose body ran, 0 for none, and
\* how many times the switched expression was evaluated.
Ran(selected, evaluated) == [selected |-> selected, evaluated |-> evaluated]

\* Go's type switch on x, which holds a value x.v of dynamic type x.typ: the
\* first clause that lists the type, else the default clause.
goTypeSwitch(clauses, x) ==
    IF \E i \in 1 .. Len(clauses) : x.typ \in Range(clauses[i].List)
    THEN Ran(CHOOSE i \in 1 .. Len(clauses) : x.typ \in Range(clauses[i].List), 1)
    ELSE IF \E i \in 1 .. Len(clauses) : clauses[i] = DefaultClause
    THEN Ran(CHOOSE i \in 1 .. Len(clauses) : clauses[i] = DefaultClause, 1)
    ELSE Ran(0, 1)

\* One emitted assertion run on x.
asserted(a, x) == execute(a.code, [match |-> x.typ = a.T, v |-> x.v]).ok

\* The condition of one if, run on x.
condHolds(cond, x) ==
    \/ cond.form = "true"
    \/ \E i \in 1 .. Len(cond.asserts) : asserted(cond.asserts[i], x)

\* The assertions of one condition that Go evaluates: || stops at the first
\* that holds.
condEvaluated(cond, x) ==
    {i \in 1 .. Len(cond.asserts) : \A j \in 1 .. (i - 1) : ~asserted(cond.asserts[j], x)}

\* The chain of ifs run on x from the i-th on: each else is reached when
\* the condition before it is false.
RECURSIVE runChain(_, _, _, _)
runChain(chain, i, x, evaluated) ==
    IF i > Len(chain) THEN Ran(0, evaluated)
    ELSE IF condHolds(chain[i], x)
    THEN Ran(i, evaluated + Cardinality({j \in condEvaluated(chain[i], x) :
                                            chain[i].asserts[j].x = SwitchedExpr}))
    ELSE runChain(chain, i + 1, x,
                  evaluated + Cardinality({j \in condEvaluated(chain[i], x) :
                                              chain[i].asserts[j].x = SwitchedExpr}))

\* The emitted statement run on x.
runSwitch(code, x) ==
    IF code.rewritten THEN runChain(code.chain, 1, x, Len(code.switched))
    ELSE goTypeSwitch(code.clauses, x)

\* The switches: at most MaxClauses clauses, no type listed twice, at most
\* one default clause.
SwitchTypes == {TInt, Pointer(TInt), Struct(<<Field("q", Pointer(TInt), FALSE)>>)}
CaseLists ==
    {<<>>} \cup {<<T>> : T \in SwitchTypes}
           \cup {l \in {<<T, U>> : T \in SwitchTypes, U \in SwitchTypes} : l[1] # l[2]}
TypeSwitches ==
    {cs \in UNION {[1 .. n -> {CaseClause(l) : l \in CaseLists}] : n \in 1 .. MaxClauses} :
        \A i \in 1 .. Len(cs), j \in 1 .. Len(cs) :
            i # j => /\ Range(cs[i].List) \cap Range(cs[j].List) = {}
                     /\ ~(cs[i] = DefaultClause /\ cs[j] = DefaultClause)}
SwitchedValues ==
    {[typ |-> T, v |-> v] : T \in SwitchTypes \cup {TString}, v \in {Nil, SomeValue, PointerTo(SomeValue),
                                                                   StructOf(<<Nil>>),
                                                                   StructOf(<<PointerTo(SomeValue)>>)}}

SwitchInit ==
    /\ OthersIdle
    /\ \E clauses \in TypeSwitches, x \in SwitchedValues :
          /\ x.v \in Values(x.typ)
          /\ fnIn = [fn |-> "convertTypeSwitchStmt", clauses |-> clauses, x |-> x]
    /\ fnOut = NoCall

\* The translator emits the statement for the switch.
ConvertTypeSwitch ==
    /\ fnIn.fn = "convertTypeSwitchStmt"
    /\ fnOut = NoCall
    /\ fnOut' = [code |-> convertTypeSwitchStmt(fnIn.clauses), ran |-> NoCall]
    /\ UNCHANGED <<fnIn, lookupVars, retVars, flowVars>>

\* The emitted statement runs.
RunTypeSwitch ==
    /\ fnIn.fn = "convertTypeSwitchStmt"
    /\ fnOut # NoCall
    /\ fnOut.ran = NoCall
    /\ fnOut' = [fnOut EXCEPT !.ran = runSwitch(fnOut.code, fnIn.x)]
    /\ UNCHANGED <<fnIn, lookupVars, retVars, flowVars>>

SwitchNext == ConvertTypeSwitch \/ RunTypeSwitch

SpecSwitch == SwitchInit /\ [][SwitchNext]_vars

(***************************************************************************)
(* SpecBinding: the translation of the statements that bind the results of *)
(* a type assertion x.(U) (codegen.go, convertAssignStmt and               *)
(* convertValueSpec), and Go's count of the values against the variables.  *)
(***************************************************************************)
TypeAssertExpr(U) == [n |-> "TypeAssertExpr", Type |-> U]

\* The names bound: v, or v \ ok.
BoundNames == {ExprList(<<Ident("v")>>, 0), ExprList(<<Ident("v"), Ident("ok")>>, 2)}

\* v := x.(U), v = x.(U), var v = x.(U), and the same with v \ ok.
Bindings(U) ==
    {AssignStmt(names, tok, ExprList(<<TypeAssertExpr(U)>>, 0)) : names \in BoundNames, tok \in {":=", "="}}
        \cup {[n |-> "ValueSpec", Names |-> names, Values |-> ExprList(<<TypeAssertExpr(U)>>, 0)] :
                 names \in BoundNames}

\* convertAssignStmt, on a right-hand side that is one type assertion.
convertAssignStmt(v) ==
    IF Len(v.Rhs.List) = 1 /\ v.Rhs.List[1].n = "TypeAssertExpr"
    THEN convertTypeAssertExpr(v.Rhs.List[1].Type, Len(v.Lhs.List) = 2)
    ELSE NoCall

\* convertValueSpec, on a value that is one type assertion.
convertValueSpec(v) ==
    IF Len(v.Values.List) = 1 /\ v.Values.List[1].n = "TypeAssertExpr"
    THEN convertTypeAssertExpr(v.Values.List[1].Type, Len(v.Values.List) = 2)
    ELSE NoCall

\* The names a statement binds.
namesOf(v) == IF v.n = "AssignStmt" THEN v.Lhs.List ELSE v.Names.List

\* The number of values the emitted expression has for n variables: the
\* results of the function literal, or Go's assertion, which has one value or
\* the comma-ok pair as the binding needs.
valuesOf(code, n) == IF code.wrapped THEN (IF code.commaOk THEN 2 ELSE 1) ELSE n

\* Go's check of the emitted statement: as many values as variables.
goAssignable(code, v) == valuesOf(code, Len(namesOf(v))) = Len(namesOf(v))

BindingInit ==
    /\ OthersIdle
    /\ \E U \in AssertTypes : \E v \in Bindings(U) : fnIn = [fn |-> "convertBinding", v |-> v]
    /\ fnOut = NoCall

\* The translator emits the code for an assignment or a short variable
\* declaration.
ConvertAssignStmt ==
    /\ fnIn.fn = "convertBinding"
    /\ fnIn.v.n = "AssignStmt"
    /\ fnOut = NoCall
    /\ fnOut' = [code |-> convertAssignStmt(fnIn.v), compiled |-> FALSE, compiles |-> FALSE]
    /\ UNCHANGED <<fnIn, lookupVars, retVars, flowVars>>

\* The translator emits the code for a var declaration.
ConvertValueSpec ==
    /\ fnIn.fn = "convertBinding"
    /\ fnIn.v.n = "ValueSpec"
    /\ fnOut = NoCall
    /\ fnOut' = [code |-> convertValueSpec(fnIn.v), compiled |-> FALSE, compiles |-> FALSE]
    /\ UNCHANGED <<fnIn, lookupVars, retVars, flowVars>>

\* Go compiles the emitted statement.
CompileBinding ==
    /\ fnIn.fn = "convertBinding"
    /\ fnOut # NoCall
    /\ ~fnOut.compiled
    /\ fnOut' = [fnOut EXCEPT !.compiled = TRUE, !.compiles = goAssignable(fnOut.code, fnIn.v)]
    /\ UNCHANGED <<fnIn, lookupVars, retVars, flowVars>>

BindingNext == ConvertAssignStmt \/ ConvertValueSpec \/ CompileBinding

SpecBinding == BindingInit /\ [][BindingNext]_vars

(***************************************************************************)
(* SpecSearch: findOptionables2 (lookup.go) call by call, on types that    *)
(* named types make recursive.  The stack holds a frame for every call     *)
(* that has not returned.                                                  *)
(***************************************************************************)
MaxStack == 12
SearchNest == 1

\* A call of findOptionables2: its arguments, and the component its loop
\* is at, 0 before the switch on T.
Frame(T, path, allUncheckable, wrapped, i) ==
    [T |-> T, path |-> path, allUncheckable |-> allUncheckable, wrapped |-> wrapped, i |-> i]

\* The switch on T, with the underlying type of a named type searched too
\* when it is not an interface.
enterUnderlying(f) ==
    IF f.T.k = "Optional" THEN <<Frame(f.T.elem, f.path, f.allUncheckable, TRUE, 0)>>
    ELSE IF f.T.k = "Named"
    THEN IF IsInterface(f.T) THEN <<>>
         ELSE <<Frame(Underlying(f.T), f.path, f.allUncheckable, f.wrapped, 0)>>
    ELSE <<[f EXCEPT !.i = 1]>>

\* The switch on T: an optional type is searched as its element, wrapped; a
\* named type is not searched further; any other type is searched component
\* by component.
enter(f) ==
    IF f.T.k = "Optional" THEN <<Frame(f.T.elem, f.path, f.allUncheckable, TRUE, 0)>>
    ELSE IF f.T.k = "Named" THEN <<>>
    ELSE <<[f EXCEPT !.i = 1]>>

\* The path recorded on entering the call, if any.
entered(f, F) ==
    IF f.T.k # "Optional" /\ ~f.wrapped /\ IsOptionable(Underlying(f.T))
    THEN found(F, f.path, f.allUncheckable) ELSE F

\* The frames below the top one.
callers(stack) == SubSeq(stack, 1, Len(stack) - 1)
top(stack) == stack[Len(stack)]

\* The types searched: those of at most SearchNest constructors, and the
\* recursive named types, alone and under one constructor.
RecursiveNames == {"L", "A", "M", "R"}
SearchTypes ==
    TypesNested(SearchNest)
        \cup {Named(n) : n \in RecursiveNames}
        \cup {Underlying(Named(n)) : n \in RecursiveNames}
        \cup UNION {Constructed(Named(n)) : n \in RecursiveNames}

SearchInit ==
    /\ OthersIdle
    /\ fnIn \in [fn : {"findOptionables2"}, T : SearchTypes]
    /\ fnOut = NoCall

\* FindOptionables calls findOptionables2 on T.
SearchCall ==
    /\ fnIn.fn = "findOptionables2"
    /\ fnOut = NoCall
    /\ fnOut' = [stack |-> <<Frame(fnIn.T, NilSlice, FALSE, FALSE, 0)>>, F |-> NoPaths]
    /\ UNCHANGED <<fnIn, lookupVars, retVars, flowVars>>

\* The call on top of the stack enters its switch.
SearchEnter ==
    /\ fnIn.fn = "findOptionables2"
    /\ fnOut # NoCall
    /\ fnOut.stack # <<>>
    /\ top(fnOut.stack).i = 0
    /\ fnOut' = [stack |-> callers(fnOut.stack) \o enter(top(fnOut.stack)),
                 F |-> entered(top(fnOut.stack), fnOut.F)]
    /\ UNCHANGED <<fnIn, lookupVars, retVars, flowVars>>

\* The call on top of the stack appends the step of its next component to
\* the path and calls findOptionables2 on the component.
SearchDescend ==
    /\ fnIn.fn = "findOptionables2"
    /\ fnOut # NoCall
    /\ fnOut.stack # <<>>
    /\ Len(fnOut.stack) < MaxStack
    /\ top(fnOut.stack).i > 0
    /\ top(fnOut.stack).i <= Len(components(top(fnOut.stack).T, top(fnOut.stack).allUncheckable))
    /\ \E c \in {components(top(fnOut.stack).T, top(fnOut.stack).allUncheckable)[top(fnOut.stack).i]} :
         \E a \in {append(fnOut.F.heap, top(fnOut.stack).path, c.step)} :
            fnOut' = [stack |-> callers(fnOut.stack)
                                  \o <<[top(fnOut.stack) EXCEPT !.i = @ + 1],
                                       Frame(c.typ, a.slice, c.allUncheckable, FALSE, 0)>>,
                      F |-> [fnOut.F EXCEPT !.heap = a.heap]]
    /\ UNCHANGED <<fnIn, lookupVars, retVars, flowVars>>

\* The call on top of the stack has searched its components and returns.
SearchReturn ==
    /\ fnIn.fn = "findOptionables2"
    /\ fnOut # NoCall
    /\ fnOut.stack # <<>>
    /\ top(fnOut.stack).i > Len(components(top(fnOut.stack).T, top(fnOut.stack).allUncheckable))
    /\ fnOut' = [fnOut EXCEPT !.stack = callers(fnOut.stack)]
    /\ UNCHANGED <<fnIn, lookupVars, retVars, flowVars>>

SearchNext == SearchCall \/ SearchEnter \/ SearchDescend \/ SearchReturn

\* A call that can take a step takes it.
SpecSearch == SearchInit /\ [][SearchNext]_vars /\ WF_vars(SearchNext)

(***************************************************************************)
(* SpecAnnotation: NewAnnotation on a flat map, then a chain of Lookup and *)
(* Type on the result (annotations.go).                                    *)
(***************************************************************************)
MaxPath == 3

\* The key of a chain of names: the names joined by dots.
RECURSIVE dotted(_)
dotted(names) ==
    IF Len(names) = 1 THEN names[1] ELSE dotted(SubSeq(names, 1, Len(names) - 1)) \o "." \o names[Len(names)]

\* The maps: some of the keys, each with a type or the empty string; and
\* the nil map.
AnnotationKeys == {"T", "T.M", "T.M.M", "V"}
AnnotationTypes == {"", "?*T"}
FlatMaps == UNION {[ks -> AnnotationTypes] : ks \in SUBSET AnnotationKeys} \cup {NilMap}
LookupPaths == UNION {[1 .. n -> {"T", "M", "V"}] : n \in 1 .. MaxPath}

AnnotationInit ==
    /\ OthersIdle
    /\ \E m \in FlatMaps, names \in LookupPaths : fnIn = [fn |-> "Annotation", m |-> m, names |-> names]
    /\ fnOut = NoCall

\* a := NewAnnotation(m)
AnnotationNew ==
    /\ fnIn.fn = "Annotation"
    /\ fnOut = NoCall
    /\ fnOut' = [a |-> NewAnnotation(fnIn.m), looked |-> 0, typed |-> FALSE, typ |-> AnnType(NilAnnotation)]
    /\ UNCHANGED <<fnIn, lookupVars, retVars, flowVars>>

\* a = a.Lookup(n), for the next name of the chain.
AnnotationLookup ==
    /\ fnIn.fn = "Annotation"
    /\ fnOut # NoCall
    /\ fnOut.looked < Len(fnIn.names)
    /\ fnOut' = [fnOut EXCEPT !.a = AnnLookup(fnOut.a, fnIn.names[fnOut.looked + 1]),
                              !.looked = @ + 1]
    /\ UNCHANGED <<fnIn, lookupVars, retVars, flowVars>>

\* a.Type(), at the end of the chain.
AnnotationType ==
    /\ fnIn.fn = "Annotation"
    /\ fnOut # NoCall
    /\ fnOut.looked = Len(fnIn.names)
    /\ ~fnOut.typed
    /\ fnOut' = [fnOut EXCEPT !.typed = TRUE, !.typ = AnnType(fnOut.a)]
    /\ UNCHANGED <<fnIn, lookupVars, retVars, flowVars>>

AnnotationNext == AnnotationNew \/ AnnotationLookup \/ AnnotationType

SpecAnnotation == AnnotationInit /\ [][AnnotationNext]_vars

(***************************************************************************)
(* C1.  Lookup on an optional type.                                        *)
(***************************************************************************)
LookedUpOnOptional == lkIn.kind = "call" /\ isOptional(lkIn.T)

Unaliased(id) == objs[id].aliased = "no"

\* The use just checked dereferences an unaliased variable of optional type,
\* or calls its method Error.
ProjectedOptional == probe.op = "project" /\ Unaliased(probe.id)

\* The variable is tested by an open if statement, and the use is in the
\* branch where it is not nil: the then-branch of x != nil, or the
\* else-branch of x == nil.
InNonNilBranch(id) ==
    \E i \in 1 .. Len(scopes) :
        /\ scopes[i].cond.id = id
        /\ <<scopes[i].kind, scopes[i].cond.op>> \in {<<"then", "neq">>, <<"else", "eq">>}

\* An open block holds a completed if statement on the variable of which
\* some branch left the block.
ExitSeen(id) ==
    \E i \in 1 .. Len(scopes) : \E h \in scopes[i].hist : h.cond.id = id

\* An open block holds a completed if statement on the variable of which
\* the branch where the variable is nil, and only that one, left the block.
AfterNilExit(id) ==
    \E i \in 1 .. Len(scopes) : \E h \in scopes[i].hist :
        /\ h.cond.id = id
        /\ \/ h.cond.op = "eq" /\ h.thenExits
           \/ h.cond.op = "neq" /\ ~h.thenExits

\* The tail is proved to denote success where the use is: in the branch of
\* an open if statement where it is nil or true, or after an if statement
\* of which the other branch, and only that one, left the block.
Succeeded(id) ==
    \/ \E i \in 1 .. Len(scopes) :
          /\ scopes[i].cond.id = id
          /\ <<scopes[i].kind, scopes[i].cond.op>> \in
                {<<"then", "eq">>, <<"then", "istrue">>, <<"else", "neq">>}
    \/ \E i \in 1 .. Len(scopes) : \E h \in scopes[i].hist :
          /\ h.cond.id = id
          /\ \/ h.cond.op = "neq" /\ h.thenExits
             \/ h.cond.op \in {"eq", "istrue"} /\ ~h.thenExits

\* C2: where no branch of an if statement on the unaliased optional x has
\* left the block, a use of x as its wrapped type is accepted in the
\* then-branch of x != nil and in the else-branch of x == nil, and rejected
\* with the optional type of x everywhere else: in the other branch, and
\* before and after the if statement.
C2_NarrowedInNonNilBranchOnly ==
    (ProjectedOptional /\ ~ExitSeen(probe.id)) =>
        /\ probe.result = "ok" <=> InNonNilBranch(probe.id)
        /\ probe.result # "ok" => probe.result = "optuse"

C2_Witness ==
    /\ ProjectedOptional
    /\ ~ExitSeen(probe.id)
    /\ Top.kind = "else"
    /\ Top.cond = [id |-> probe.id, op |-> "eq"]
    /\ probe.result = "ok"

C5_BoundUnusableUntilSuccess ==
    /\ \A id \in 1 .. Len(objs) :
          boundBy[id].how = "decl" =>
              /\ ~objs[id].usable
              /\ Range(objs[boundBy[id].tail].collapses) =
                    {k \in 1 .. Len(objs) : boundBy[k] = boundBy[id]}
    /\ (probe.op = "read" /\ boundBy[probe.id].how = "decl") =>
          /\ probe.result = "ok" <=> Succeeded(boundBy[probe.id].tail)
          /\ probe.result # "ok" => probe.result = "uninit"

C5_Witness ==
    /\ probe.op = "read"
    /\ boundBy[probe.id] = [tail |-> Top.cond.id, how |-> "decl", errs |-> {}]
    /\ Len(objs[Top.cond.id].collapses) = 2
    /\ Top.kind = "else"
    /\ Top.cond.op = "neq"
    /\ probe.result = "ok"

\* C6: a read of a variable that an accepted entangled assignment set
\* before \ is accepted exactly where the tail is proved to denote success,
\* and rejected as possibly uninitialized elsewhere.
C6_AssignedUnusableUntilSuccess ==
    ( /\ probe.op = "read"
      /\ boundBy[probe.id].how = "assign"
      /\ boundBy[probe.id].errs = {} ) =>
        /\ probe.result = "ok" <=> Succeeded(boundBy[probe.id].tail)
        /\ probe.result # "ok" => probe.result = "uninit"

(***************************************************************************)
(* C7, C8.  Return statements written with \.                              *)
(***************************************************************************)
ReturnChecked == retStmt # NoCall /\ retSig.results.entangled # NoVar

\* The statement has values on both sides of \.
MixedReturn ==
    retStmt.EntangledPos > 1 /\ retStmt.EntangledPos <= Len(retStmt.List)

\* The statement is r1, ..., rn \ e with one value for each of the n
\* results and one for the tail, each assignable to its variable.
CompleteMixedReturn ==
    LET vs == retSig.results.vars
    IN  /\ Len(retStmt.List) = Len(vs) + 1
        /\ retStmt.EntangledPos = Len(vs) + 1
        /\ \A i \in 1 .. Len(vs) : initVar(vs[i], retStmt.List[i]) = {}
        /\ initVar(retSig.results.entangled, retStmt.List[Len(vs) + 1]) = {}

\* C7 (as stated): in a function with entangled results a mixed return
\* r1, ..., rn \ e is accepted if and only if the tail type is optionable and
\* every non-tail value is a complete value.
C7_MixedAcceptedIffOptionableTail ==
    (ReturnChecked /\ MixedReturn) =>
        (retErrs = {} <=>
            (hasNil(retSig.results.entangled.typ) /\ CompleteMixedReturn))

\* C7 (amended): a mixed return is rejected whatever the tail type is, and
\* every accepted return statement written with \ has exactly one side
\* populated: the tail value alone, or one value for each non-tail result.
C7_MixedReturnRejected ==
    ReturnChecked =>
        /\ MixedReturn => ErrNotBoth \in retErrs
        /\ retErrs = {} =>
             \/ retStmt.EntangledPos = 1 /\ Len(retStmt.List) = 1
             \/ /\ retStmt.EntangledPos = Len(retStmt.List) + 1
                /\ Len(retStmt.List) = Len(retSig.results.vars)

\* A complete, well-typed mixed return in a function whose tail is error is
\* rejected.
C7_Witness ==
    /\ ReturnChecked
    /\ retSig.results.entangled.typ = TError
    /\ MixedReturn
    /\ CompleteMixedReturn
    /\ ErrNotBoth \in retErrs

\* C8: with a boolean tail, the failure-shape return \ true is rejected and
\* \ false is accepted.
C8_OnlyFalseOnTailSide ==
    (ReturnChecked /\ isBoolean(retSig.results.entangled.typ)
                   /\ retStmt.EntangledPos = 1) =>
        /\ retStmt.List = <<TrueConst>> => ErrEntangledBool \in retErrs
        /\ retStmt.List = <<FalseConst>> => retErrs = {}

\* return \ true was checked in a function whose tail is bool, and rejected.
C8_Witness ==
    /\ ReturnChecked
    /\ retSig.results.entangled.typ = TBool
    /\ retStmt = ExprList(<<TrueConst>>, 1)
    /\ retErrs = {ErrEntangledBool}

(***************************************************************************)
(* C9, C10.  Translated return statements.                                 *)
(***************************************************************************)
Translated == retStmt # NoCall /\ retErrs = {} /\ retOut # NoCall

\* The zero literal of a type: nil for the optionable kinds, T{} for a
\* struct type T, and the literal of the basic kind otherwise.
ZeroLiteral(typ) ==
    LET u == Underlying(typ)
    IN  IF u.k = "Struct" THEN TypeText(typ) \o "{}"
        ELSE IF u.k = "Basic"
        THEN CASE u.name = "bool"    -> "false"
               [] u.name = "int"     -> "0"
               [] u.name = "float64" -> "0.0"
               [] u.name = "string"  -> "\"\""
        ELSE "nil"

\* C9: a failure-shape return \ e in a function with non-tail results of
\* types T1..Tn is rewritten to the return of the zero literals of T1..Tn
\* followed by e, however the results are grouped in the declaration.
C9_FailureInjectsZeroValues ==
    (Translated /\ retStmt.EntangledPos = 1) =>
        /\ retOut.panic = NoPanic
        /\ retOut.out =
              [i \in 1 .. Len(retSig.results.vars) |->
                  ZeroLiteral(retSig.results.vars[i].typ)] \o <<"e1">>

\* C10: a success-shape return v1, ..., vn \ is rewritten to the return of
\* v1..vn followed by nil when the tail is of an optionable type and by true
\* when the tail is of any boolean type.
C10_SuccessAppendsNilOrTrue ==
    (Translated /\ retStmt.EntangledPos > 1) =>
        /\ retOut.panic = NoPanic
        /\ retOut.out =
              [j \in 1 .. Len(retStmt.List) |-> ExprText[j]]
              \o <<IF isBoolean(retSig.results.entangled.typ) THEN "true" ELSE "nil">>

(***************************************************************************)
(* C11.  Type assertions to types with checkable optionable paths.         *)
(***************************************************************************)
\* The expressions of the checkable positions of a value that hold nil: a
\* position below a nil pointer does not exist.
RECURSIVE NilAt(_, _, _, _)
NilAt(T, v, expr, wrapped) ==
    IF T.k = "Optional" THEN NilAt(T.elem, v, expr, TRUE)
    ELSE IF T.k = "Pointer"
    THEN IF v = Nil THEN (IF wrapped THEN {} ELSE {expr})
         ELSE NilAt(T.elem, v.elem, Star(expr), FALSE)
    ELSE IF T.k = "Struct"
    THEN UNION {NilAt(T.fields[i].typ, v.fields[i],
                      Sel(expr, T.fields[i].name, i), FALSE) : i \in 1 .. Len(T.fields)}
    ELSE IF IsOptionable(Underlying(T)) /\ v = Nil /\ ~wrapped THEN {expr}
    ELSE {}

AssertionRan ==
    /\ fnIn # NoCall
    /\ fnIn.fn = "convertTypeAssertExpr"
    /\ fnOut # NoCall
    /\ fnOut.outcome # NoCall

\* C11: for an assertion x.(U) where U has checkable paths, the emitted
\* code in single-value form yields the value when x holds a U with no nil
\* at a checkable position, and panics naming a nil position when there is
\* one; in comma-ok form it never panics, and ok is true exactly when x
\* holds a U with no nil at a checkable position.
C11_AssertionChecksEveryCheckablePath ==
    AssertionRan =>
        LET nils == NilAt(fnIn.U, fnIn.x.v, SgoV, FALSE)
            out  == fnOut.outcome
        IN  IF fnIn.commaOk
            THEN /\ out.panic = NoPanic
                 /\ out.ok <=> (fnIn.x.match /\ nils = {})
            ELSE /\ (fnIn.x.match /\ nils = {}) =>
                        out.panic = NoPanic /\ out.v = fnIn.x.v
                 /\ (fnIn.x.match /\ nils # {}) =>
                        out.panic = PanicNilValue /\ out.expr \in nils

(***************************************************************************)
(* C12.  Type assertions to types with unchecked optionable paths.         *)
(***************************************************************************)
\* The unchecked positions of a type: those of pointer, map, interface,
\* channel or function type, not directly wrapped in ?, reached through a
\* step other than pointee and struct field.  Each is given by whether a
\* type wrapped in ? is passed on the way to it.
RECURSIVE UncheckedAt(_, _, _, _)
UncheckedAt(T, direct, wrapped, crossed) ==
    LET self == IF IsOptionable(Underlying(T)) /\ ~wrapped /\ ~direct
                THEN {crossed} ELSE {}
        below(cs) == UNION {UncheckedAt(cs[i].typ, direct /\ T.k \in {"Pointer", "Struct"},
                                        FALSE, crossed \/ wrapped) : i \in 1 .. Len(cs)}
    IN  IF T.k = "Optional" THEN UncheckedAt(T.elem, direct, TRUE, crossed)
        ELSE IF T.k = "Named" THEN self
        ELSE self \cup below(components(T, FALSE))

AssertionChecked == fnIn # NoCall /\ fnIn.fn = "assertableTo" /\ fnOut # NoCall
Rejected == "AssertionHasUncheckablePath" \in fnOut.errs

\* C12 (as stated): an assertion x.(U) is rejected exactly when U has an
\* unchecked position, not wrapped in ?, that is reached without passing a
\* type wrapped in ?.
C12_RejectedIffUncheckedOutsideOptional ==
    AssertionChecked =>
        (Rejected <=> FALSE \in UncheckedAt(fnIn.T, TRUE, FALSE, FALSE))

\* C12 (amended): an assertion x.(U) is rejected exactly when U has an
\* unchecked position not itself wrapped in ?, whether or not a type
\* wrapped in ? is passed on the way to it.
C12_RejectedIffUncheckedUnwrapped ==
    AssertionChecked =>
        (Rejected <=> UncheckedAt(fnIn.T, TRUE, FALSE, FALSE) # {})

\* A type is rejected whose unchecked positions all lie below a type
\* wrapped in ?.
C12_Witness ==
    /\ AssertionChecked
    /\ Rejected
    /\ UncheckedAt(fnIn.T, TRUE, FALSE, FALSE) = {TRUE}

(***************************************************************************)
(* C13, C15.  The text of a translated file.                               *)
(***************************************************************************)
Converted == fnIn # NoCall /\ fnIn.fn = "convertAST" /\ fnOut # NoCall
ConvertedTwice == Converted /\ fnOut.second # NoCall

\* C13: the translation of an accepted file has no ? and no \ among its
\* tokens.
C13_NoOptionalOrEntangleTokens ==
    Converted =>
        /\ fnOut.first.panic = NoPanic
        /\ Tok("?") \notin Range(fnOut.first.dst)
        /\ Tok("\\") \notin Range(fnOut.first.dst)

\* A text without its ? and \ tokens and its line ends.
Stripped(text) == SelectSeq(text, LAMBDA t : t \notin {Tok("?"), Tok("\\"), NewLine})

\* C15: translating a translation again gives, without ? and \ and up to
\* white space, the text of the first translation.
C15_TranslationIdempotent ==
    ConvertedTwice =>
        /\ fnOut.second.panic = NoPanic
        /\ Stripped(fnOut.second.dst) = Stripped(fnOut.first.dst)

(***************************************************************************)
(* C14.  The translator on accepted programs.                              *)
(***************************************************************************)
\* C14: the translation of a return statement the checker accepted never
\* panics, whatever the types of the function's results.
C14_TranslatorNeverPanics ==
    Translated => retOut.panic = NoPanic

(***************************************************************************)
(* C16.  The positions FindOptionables reports.                            *)
(***************************************************************************)
\* A step without the type it is taken on: the kind of that type and the
\* component chosen.
StepLabel(st) == [on |-> st.Type.k, Key |-> st.Key, Field |-> st.Field, Param |-> st.Param]
Labels(path) == [i \in 1 .. Len(path) |-> StepLabel(path[i])]

\* The positions of a type whose type is a pointer, map, interface,
\* channel or function not directly wrapped in ?, each with whether it is
\* reached through pointee and struct field steps only.  A declared type
\* is one position.
RECURSIVE Positions(_, _, _, _)
Positions(T, path, direct, wrapped) ==
    LET self == IF IsOptionable(Underlying(T)) /\ ~wrapped
                THEN {[path |-> path, checkable |-> direct]} ELSE {}
        below(cs) == UNION {Positions(cs[i].typ, path \o <<StepLabel(cs[i].step)>>,
                                      direct /\ T.k \in {"Pointer", "Struct"}, FALSE) :
                                i \in 1 .. Len(cs)}
    IN  IF T.k = "Optional" THEN Positions(T.elem, path, direct, TRUE)
        ELSE IF T.k = "Named" THEN self
        ELSE self \cup below(components(T, FALSE))

Reported(list) == {Labels(list[i]) : i \in 1 .. Len(list)}

FoundOptionables == fnIn # NoCall /\ fnIn.fn = "FindOptionables" /\ fnOut # NoCall

\* C16: the checkable paths FindOptionables(T) returns are exactly the
\* positions of T of pointer, map, interface, channel or function type not
\* directly wrapped in ? that are reached through pointee and struct field
\* steps only; the unchecked paths are exactly the other such positions;
\* and no position is in both lists.
C16_ReportsExactlyTheOptionablePositions ==
    FoundOptionables =>
        LET all == Positions(fnIn.T, <<>>, TRUE, FALSE)
        IN  /\ Reported(fnOut.checkable) = {p.path : p \in {q \in all : q.checkable}}
            /\ Reported(fnOut.uncheckable) = {p.path : p \in {q \in all : ~q.checkable}}
            /\ Reported(fnOut.checkable) \cap Reported(fnOut.uncheckable) = {}

(***************************************************************************)
(* C17.  Variables of pointer type declared without a value.               *)
(***************************************************************************)
\* No assignment statement has had the variable on its left-hand side, and
\* an accepted one has.
Fresh(id) == boundBy[id].how = "none"
AssignedTo(id) == boundBy[id].how = "assign"

\* C17: a variable declared with a pointer type and no value is unusable
\* until an assignment to it completes: a read of it before any assignment
\* is rejected as uninitialized, no accepted assignment statement reads on
\* its right-hand side a variable that nothing was assigned to before the
\* statement, and a read after an accepted assignment is accepted.
C17_UnusableUntilAssigned ==
    /\ (probe.op = "read" /\ Fresh(probe.id)) => probe.result = "uninit"
    /\ (probe.op = "read" /\ AssignedTo(probe.id)) => probe.result = "ok"
    /\ (last.stmt = "assign" /\ last.errs = {}) =>
          \A i \in 1 .. Len(last.reads) : ~last.reads[i].fresh

(***************************************************************************)
(* C18, C19.  The conversion of imported declarations.                     *)
(***************************************************************************)
Imported == fnIn # NoCall /\ fnIn.fn = "ConvertAST" /\ fnOut # NoCall

\* The pointer, map, interface, channel and function types of a node that
\* are not the element of an optional type; wrapped tells that the node
\* itself is such an element, or is the type a declaration defines or the
\* signature of a function or method.
RECURSIVE Unwrapped(_, _)
Unwrapped(node, wrapped) ==
    LET self == IF wrapped THEN {} ELSE {node}
        fields(list) == UNION {Unwrapped(list[i].Type, FALSE) : i \in 1 .. Len(list)}
    IN  IF node.n = "OptionalType" THEN Unwrapped(node.Elt, TRUE)
        ELSE IF node.n = "StarExpr" THEN self \cup Unwrapped(node.X, FALSE)
        ELSE IF node.n = "Ident" THEN (IF IsOptionable(Uses(node.Name)) THEN self ELSE {})
        ELSE IF node.n = "SelectorExpr"
        THEN (IF IsOptionable(Qualified(node.X, node.Sel)) THEN self ELSE {})
        ELSE IF node.n \in {"Ellipsis", "ArrayType"} THEN Unwrapped(node.Elt, FALSE)
        ELSE IF node.n = "MapType"
        THEN self \cup Unwrapped(node.Key, FALSE) \cup Unwrapped(node.Value, FALSE)
        ELSE IF node.n = "ChanType" THEN self \cup Unwrapped(node.Value, FALSE)
        ELSE IF node.n = "FuncType" THEN self \cup fields(node.Params) \cup fields(node.Results)
        ELSE IF node.n = "InterfaceType"
        THEN self \cup UNION {Unwrapped(node.Methods[i].Type, TRUE) : i \in 1 .. Len(node.Methods)}
        ELSE IF node.n = "StructType" THEN fields(node.Fields)
        ELSE IF node.n = "ValueSpec" THEN Unwrapped(node.Type, FALSE)
        ELSE IF node.n = "TypeSpec" THEN Unwrapped(node.Type, TRUE)
        ELSE IF node.n = "GenDecl"
        THEN UNION {Unwrapped(node.Specs[i], FALSE) : i \in 1 .. Len(node.Specs)}
        ELSE IF node.n = "FuncDecl"
        THEN (IF node.Recv = NoNode THEN {} ELSE Unwrapped(node.Recv.Type, FALSE))
             \cup Unwrapped(node.Type, TRUE)
        ELSE {}

\* The lines "For SGo: " of the comments of a node and of its parts.
RECURSIVE DocTexts(_)
DocTexts(node) ==
    LET own == IF "Doc" \in DOMAIN node
               THEN {node.Doc[i].s : i \in {j \in 1 .. Len(node.Doc) : node.Doc[j].sgo}}
               ELSE {}
        each(list) == UNION {DocTexts(list[i]) : i \in 1 .. Len(list)}
    IN  own \cup
        (IF node.n = "GenDecl" THEN each(node.Specs)
         ELSE IF node.n \in {"TypeSpec", "Field"} THEN DocTexts(node.Type)
         ELSE IF node.n = "StructType" THEN each(node.Fields)
         ELSE {})

\* No annotation is given: no catalogue or side-car file, no comment.
Unannotated == fnIn.anns = NilMap /\ DocTexts(fnIn.decl) = {}

\* C18: in a converted declaration no annotation applies to, every pointer,
\* map, interface, channel and function type, the types named with a
\* package and the types of variadic parameters included, is the element of
\* an optional type.
C18_EveryOptionableWrapped ==
    (Imported /\ Unannotated) => Unwrapped(fnOut.decl, FALSE) = {}

\* The names the annotations of a declaration are looked up by.
DeclaredNames(d) ==
    IF d.n = "FuncDecl" THEN {declName(d)}
    ELSE UNION {{specName(d.Specs[i])} \cup
                (IF d.Specs[i].Type.n = "StructType"
                 THEN {specName(d.Specs[i]) \o "." \o d.Specs[i].Type.Fields[j].Names[1] :
                          j \in {k \in 1 .. Len(d.Specs[i].Type.Fields) :
                                     Len(d.Specs[i].Type.Fields[k].Names) = 1}}
                 ELSE IF d.Specs[i].Type.n = "InterfaceType"
                 THEN {specName(d.Specs[i]) \o "." \o methodName(d.Specs[i].Type.Methods[j]) :
                          j \in 1 .. Len(d.Specs[i].Type.Methods)}
                 ELSE {}) : i \in 1 .. Len(d.Specs)}

\* An annotation of the declaration, in the catalogue or side-car file or in
\* a comment, is not a type expression.
MalformedAnnotation ==
    \/ MalformedText \in DocTexts(fnIn.decl)
    \/ /\ fnIn.anns # NilMap
       /\ \E k \in DOMAIN fnIn.anns \cap DeclaredNames(fnIn.decl) : fnIn.anns[k] = MalformedText

\* C19: the conversion of a declaration with a malformed annotation reports
\* a diagnostic of kind ImportAnnotationParse that carries a position.
C19_MalformedAnnotationReported ==
    (Imported /\ MalformedAnnotation) =>
        \E diag \in fnOut.diags : diag.kind = "ImportAnnotationParse" /\ diag.pos # NoId

(***************************************************************************)
(* C20.  The parser of annotation files.                                   *)
(***************************************************************************)
ParsedFile == fnIn # NoCall /\ fnIn.fn = "Parse" /\ fnOut # NoCall

\* C20: Parse maps an annotation file to the map that holds, for every leaf
\* item, one entry: its type, trimmed, under the names of the items around
\* it joined with '.', a receiver written (*T) whatever the white space
\* inside the parentheses.
C20_OneEntryPerLeaf ==
    ParsedFile =>
        /\ fnOut.err = ErrNil
        /\ fnOut.anns = Leaves(fnIn.items, "")
        /\ Cardinality(fnOut.anns) = LeafCount(fnIn.items)

(***************************************************************************)
(* C21.  The names of the items of an annotation file.                     *)
(***************************************************************************)
\* An identifier of Go: a letter or '_', then letters, digits and '_'.
GoIdentifier(id) ==
    /\ id # <<>>
    /\ IsLetter(id[1]) \/ id[1] = "_"
    /\ \A i \in 2 .. Len(id) : IsLetter(id[i]) \/ IsDigit(id[i]) \/ id[i] = "_"

\* The file is one item, an identifier and a type.
OneNamedType ==
    /\ ParsedFile
    /\ Len(fnIn.items) = 1
    /\ fnIn.items[1].leaf /\ ~fnIn.items[1].recv
    /\ GoIdentifier(fnIn.items[1].id)

\* C21: an item named by an identifier of Go is accepted, and the
\* identifier, unchanged, is the key of the item.
C21_IdentifierIsKey ==
    OneNamedType =>
        /\ fnOut.err = ErrNil
        /\ {e[1] : e \in fnOut.anns} = {Text(fnIn.items[1].id)}

(***************************************************************************)
(* C22.  The position of a Tokenizer.                                      *)
(***************************************************************************)
Tokenizing == fnIn # NoCall /\ fnIn.fn = "Tokenizer"

RECURSIVE SizeOf(_)
SizeOf(tks) == IF tks = <<>> THEN 0 ELSE Head(tks).Size + SizeOf(Tail(tks))
\* The number of the last '\n' among the tokens, 0 if there is none.
LastLine(tks) ==
    IF \E i \in 1 .. Len(tks) : tks[i].Lexeme = 10
    THEN CHOOSE i \in 1 .. Len(tks) :
            tks[i].Lexeme = 10 /\ \A j \in i + 1 .. Len(tks) : tks[j].Lexeme # 10
    ELSE 0
Lines(tks) == Cardinality({i \in 1 .. Len(tks) : tks[i].Lexeme = 10})

\* C22: the position of a tokenizer is that after the runes its successful
\* calls of Next returned, one rune each, column 1 of the next line after a
\* '\n': Peek does not advance, a call that returns an error does not
\* either, and the call after it returns the same error.  The token a call
\* returns is at the position the tokenizer had.
C22_PositionFollowsNext ==
    Tokenizing =>
        /\ fnOut.t.bytePos = SizeOf(fnOut.returned)
        /\ fnOut.t.runePos = Len(fnOut.returned)
        /\ fnOut.t.line = 1 + Lines(fnOut.returned)
        /\ col(fnOut.t) = Len(fnOut.returned) - LastLine(fnOut.returned) + 1
        /\ (fnOut.before # NoError) => fnOut.err = fnOut.before
        /\ \A i \in 1 .. Len(fnOut.returned) :
              /\ fnOut.returned[i].RunePos = i - 1
              /\ fnOut.returned[i].BytePos = SizeOf(SubSeq(fnOut.returned, 1, i - 1))
              /\ fnOut.returned[i].Line = 1 + Lines(SubSeq(fnOut.returned, 1, i - 1))
              /\ fnOut.returned[i].Col = i - LastLine(SubSeq(fnOut.returned, 1, i - 1))

\* After a line and a rune of two bytes, Next returned an error twice.
C22_Witness ==
    /\ Tokenizing
    /\ fnOut.op = "Next" /\ fnOut.err.kind = "UTF8Error" /\ fnOut.before = fnOut.err
    /\ Len(fnOut.returned) = 2
    /\ fnOut.returned[1].Lexeme = 10 /\ fnOut.returned[2].Size = 2

(***************************************************************************)
(* C23.  The targets of an entangled assignment.                           *)
(***************************************************************************)
AssignedTargets == last.stmt = "assignTargets"

\* C23: an entangled assignment with a target that is a field selector or
\* an index expression, before or after \, is rejected with "cannot
\* entangle non-identifier"; one whose targets are the identifiers of a
\* string and a bool variable, from m[k], is accepted.
C23_NonIdentifierRejected ==
    AssignedTargets =>
        IF \E i \in 1 .. Len(targets(last.form)) : targets(last.form)[i].n # "Ident"
        THEN ErrNonIdent \in last.errs
        ELSE last.errs = {}

\* v \ w.ok = m[k] was rejected.
C23_Witness ==
    /\ AssignedTargets
    /\ last.form.tail.n = "SelectorExpr"
    /\ ErrNonIdent \in last.errs

(***************************************************************************)
(* C24.  The chain of ifs a type switch becomes.                           *)
(***************************************************************************)
SwitchRan == fnIn.fn = "convertTypeSwitchStmt" /\ fnOut # NoCall /\ fnOut.ran # NoCall

\* The listed type holds for x: x has that dynamic type and no checkable
\* path of it is nil.
selects(n, x) ==
    /\ x.typ = n
    /\ \A i \in 1 .. Len(FindOptionables(n).checkable) :
          eval(checkExpr(FindOptionables(n).checkable[i], 1, SgoV), x.v) # Nil

\* The clause the type switch selects: the first case clause, in the order
\* written, with a listed type that holds; else the default clause.
selectedClause(clauses, x) ==
    IF \E i \in 1 .. Len(clauses) : \E n \in Range(clauses[i].List) : selects(n, x)
    THEN CHOOSE i \in 1 .. Len(clauses) :
            /\ \E n \in Range(clauses[i].List) : selects(n, x)
            /\ \A j \in 1 .. (i - 1) : \A n \in Range(clauses[j].List) : ~selects(n, x)
    ELSE IF \E i \in 1 .. Len(clauses) : clauses[i] = DefaultClause
    THEN CHOOSE i \in 1 .. Len(clauses) : clauses[i] = DefaultClause
    ELSE 0

\* C24: the statement emitted for a type switch evaluates the switched
\* expression once and runs the body of the clause the type switch selects:
\* the first case clause whose assertion holds, the default clause only when
\* none holds, wherever it is written.
C24_ChainSelectsClause ==
    (SwitchRan /\ fnOut.code.rewritten) =>
        /\ fnOut.ran.evaluated = 1
        /\ fnOut.ran.selected = selectedClause(fnIn.clauses, fnIn.x)

(***************************************************************************)
(* C25.  Boolean values in return statements written with \.               *)
(***************************************************************************)
\* The statement is r1, ..., rn \ with one value for each of the n results,
\* each assignable to its variable.
CompleteSuccessReturn ==
    /\ retStmt.EntangledPos = Len(retStmt.List) + 1
    /\ Len(retStmt.List) = Len(retSig.results.vars)
    /\ \A i \in 1 .. Len(retStmt.List) : initVar(retSig.results.vars[i], retStmt.List[i]) = {}

\* C25: "entangled bool must be the false constant" is reported only for
\* the value after \ of a failure-shape return; a success-shape return
\* r1, ..., rn \ of assignable values, boolean ones among them, is accepted.
C25_BoolRejectedOnlyAfterBackslash ==
    ReturnChecked =>
        /\ ErrEntangledBool \in retErrs => retStmt.EntangledPos = 1
        /\ CompleteSuccessReturn => retErrs = {}

(***************************************************************************)
(* C26.  The guard emitted for v \ ok bound to a type assertion.           *)
(***************************************************************************)
BindingConverted == fnIn.fn = "convertBinding" /\ fnOut # NoCall

\* C26: when v \ ok is bound to an assertion to a type with checkable
\* paths, by :=, = or var, the emitted function literal has the two results
\* (value, ok), and the emitted expression has as many values as the
\* statement has variables.
C26_GuardHasTwoResults ==
    BindingConverted =>
        /\ (Len(namesOf(fnIn.v)) = 2 /\ fnOut.code.wrapped) => fnOut.code.commaOk
        /\ valuesOf(fnOut.code, Len(namesOf(fnIn.v))) = Len(namesOf(fnIn.v))

(***************************************************************************)
(* C27.  The pointers the emitted guard dereferences.                      *)
(***************************************************************************)
\* The expressions an expression of the guard dereferences.
RECURSIVE dereferenced(_)
dereferenced(expr) ==
    IF expr.e = "__sgo_v" THEN {}
    ELSE IF expr.e = "*" THEN {expr.x} \cup dereferenced(expr.x)
    ELSE dereferenced(expr.x)

\* C27: in the guard emitted for an assertion, every pointer that the
\* expression of a path dereferences is compared with nil by an earlier
\* disjunct, and running the guard never dereferences a nil pointer, also
\* for a type with an optional pointer above a checkable position.
C27_GuardChecksBeforeDereference ==
    (fnIn.fn = "convertTypeAssertExpr" /\ fnOut # NoCall /\ fnOut.code.wrapped) =>
        /\ \A i \in 1 .. Len(fnOut.code.exprs) :
              \A y \in dereferenced(fnOut.code.exprs[i]) :
                  \E j \in 1 .. (i - 1) : fnOut.code.exprs[j] = y
        /\ fnOut.outcome # NoCall => fnOut.outcome.panic # PanicNilDeref

(***************************************************************************)
(* C28.  FindOptionables returns.                                          *)
(***************************************************************************)
SearchOver == fnIn.fn = "findOptionables2" /\ fnOut # NoCall /\ fnOut.stack = <<>>

\* C28: FindOptionables returns for every type, the recursive and mutually
\* recursive named types among them: every call of findOptionables2
\* returns, and the lists hold the paths FindOptionables reports.
C28_FindOptionablesReturns == <>SearchOver

\* The search of struct{ next *L; v *int }, the underlying type of the
\* recursive type L, is over with the paths of both fields.
C28_Witness ==
    /\ SearchOver
    /\ fnIn.T = Underlying(Named("L"))
    /\ Len(fnOut.F.checkable) = 2
    /\ pathsFound(fnOut.F) = FindOptionables(fnIn.T)

(***************************************************************************)
(* C29.  Lookup through a flat map of annotations.                         *)
(***************************************************************************)
AnnotationTyped == fnIn.fn = "Annotation" /\ fnOut # NoCall /\ fnOut.typed

\* The map has the key with a type that is not empty.
Annotated(m, key) == m # NilMap /\ key \in DOMAIN m /\ m[key] # ""

\* C29: for the Annotation of a flat map m, Lookup(n1)...Lookup(nk).Type()
\* is (m["n1.....nk"], true) when the map has the key with a type that is
\* not empty, also when it has a proper prefix of the key, and ("", false)
\* otherwise.
C29_LookupFollowsDottedKey ==
    AnnotationTyped =>
        IF Annotated(fnIn.m, dotted(fnIn.names))
        THEN fnOut.typ = [typ |-> fnIn.m[dotted(fnIn.names)], ok |-> TRUE]
        ELSE fnOut.typ = [typ |-> "", ok |-> FALSE]

(***************************************************************************)
(* C30.  The methods of an imported interface.                             *)
(***************************************************************************)
\* The declaration converted is type I interface { m() t; k(a u) }.
ImportedInterface ==
    /\ Imported
    /\ fnIn.decl.n = "GenDecl"
    /\ fnIn.decl.Specs[1].n = "TypeSpec"
    /\ fnIn.decl.Specs[1].Type.n = "InterfaceType"

\* The methods of the interface a declaration defines.
MethodsOf(decl) == decl.Specs[1].Type.Methods

\* C30: every method of an imported interface is converted, and a method
\* without annotation is converted as it is when no method of the interface
\* has an annotation.
C30_MethodsConvertedAlike ==
    ImportedInterface =>
        \A i \in 1 .. Len(MethodsOf(fnIn.decl)) :
            (fnIn.anns = NilMap \/ ("I." \o MethodsOf(fnIn.decl)[i].Names[1]) \notin DOMAIN fnIn.anns)
                => MethodsOf(fnOut.decl)[i] = MethodsOf(ImportedDecl(fnIn.decl, NilMap).decl)[i]

====
